---- MODULE Spec2Model ----
(***************************************************************************)
(* Placement data model of placetools/place_engine.py: SiteInfo, Cell,     *)
(* Micro, MicroLibrary and PlaceCellEngine.                                *)
(*                                                                         *)
(* Python objects live on two heaps (micros, cells): an object is its      *)
(* index, a reference is an index, so aliasing and copying are visible.    *)
(* Coordinates are exact multiples of a unit: an x coordinate counts       *)
(* units of 0.035 and a y coordinate units of 0.45, so that the default    *)
(* site (0.14 x 0.9) is SiteWidth x SiteHeight units and coordinates off   *)
(* the site grid exist.  Floating-point rounding error is not modelled.    *)
(***************************************************************************)
EXTENDS Integers, Sequences, FiniteSets, TLC

VARIABLES
    micros,           \* heap of Micro objects (a sequence: object id = index)
    cells,            \* heap of Cell objects
    held,             \* the caller's local Micro variables, in order of assignment:
                      \* [micro |-> the object, src |-> the variable it was cloned
                      \* from (0 when it was constructed)]
    heldCells,        \* Cell objects the caller holds in local variables
    active_micros,    \* PlaceCellEngine.active_micros: ordered dict name -> Micro
    micro_templates,  \* MicroLibrary.micro_templates: ordered dict name -> Micro
    files,            \* MicroLibrary directory: ordered dict name -> JSON document
    global_placements, \* PlaceCellEngine.global_placements: list of placement records
    last,             \* the call that produced this state, and what it returned
    nsteps            \* number of calls made so far

vars == <<micros, cells, held, heldCells, active_micros, micro_templates, files,
          global_placements, last, nsteps>>

-----------------------------------------------------------------------------
(* Bounds of the exploration. *)
MaxSteps == 2
MaxMicros == 6
MaxCells == 6

-----------------------------------------------------------------------------
(* SiteInfo *)

\* SiteInfo.width / SiteInfo.height defaults, in coordinate units.
SiteWidth == 4
SiteHeight == 2

SiteInfo(width, height) == [width |-> width, height |-> height]

DefaultSiteInfo == SiteInfo(SiteWidth, SiteHeight)

\* Python round(n / d) for d > 0: nearest integer, ties to the even one.
PyRound(n, d) ==
    LET q == n \div d
        r == n % d
    IN  IF 2 * r < d THEN q
        ELSE IF 2 * r > d THEN q + 1
        ELSE IF q % 2 = 0 THEN q ELSE q + 1

\* Faulty variant: always on to the next grid point
snap_to_grid_next(site, x, y) ==
    <<(x \div site.width + 1) * site.width, (y \div site.height + 1) * site.height>>

snap_to_grid(site, x, y) ==
    <<PyRound(x, site.width) * site.width, PyRound(y, site.height) * site.height>>

to_grid_coords(site, x, y) ==
    <<PyRound(x, site.width), PyRound(y, site.height)>>

from_grid_coords(site, grid_x, grid_y) ==
    <<grid_x * site.width, grid_y * site.height>>

-----------------------------------------------------------------------------
(* Orientation *)

Orientation == {"N", "S", "FN", "FS"}

-----------------------------------------------------------------------------
(* Cell: operations on one Cell object (a record) *)

Cell_update_grid_coordinates(c) ==
    LET g == to_grid_coords(c.site_info, c.absolute_x, c.absolute_y)
        r == to_grid_coords(c.site_info, c.x, c.y)
    IN  [c EXCEPT !.grid_x = g[1], !.grid_y = g[2],
                  !.rel_grid_x = r[1], !.rel_grid_y = r[2]]

Cell_update_bbox(c) ==
    [c EXCEPT !.bbox_min_x = c.absolute_x,
              !.bbox_min_y = c.absolute_y,
              !.bbox_max_x = c.absolute_x + c.width,
              !.bbox_max_y = c.absolute_y + c.height]

\* Cell(name, x, y, orientation, width, height) and __post_init__
Cell_init(name, x, y, orientation, width, height) ==
    Cell_update_bbox(Cell_update_grid_coordinates(
        [name |-> name, x |-> x, y |-> y, orientation |-> orientation,
         width |-> width, height |-> height,
         absolute_x |-> x, absolute_y |-> y,
         hierarchical_path |-> <<name>>,
         site_info |-> DefaultSiteInfo,
         grid_x |-> 0, grid_y |-> 0, rel_grid_x |-> 0, rel_grid_y |-> 0,
         bbox_min_x |-> 0, bbox_min_y |-> 0, bbox_max_x |-> 0, bbox_max_y |-> 0]))

Cell_set_rel_position(c, rel_x, rel_y, site) ==
    Cell_update_bbox(Cell_update_grid_coordinates(
        [c EXCEPT !.site_info = site, !.x = rel_x, !.y = rel_y]))

Cell_set_absolute_position(c, origin_x, origin_y, site) ==
    Cell_update_bbox(Cell_update_grid_coordinates(
        [c EXCEPT !.site_info = site,
                  !.absolute_x = origin_x + c.x,
                  !.absolute_y = origin_y + c.y]))

\* parent_path is a sequence of names; the empty sequence is the empty string
Cell_set_hierarchical_path(c, parent_path) ==
    [c EXCEPT !.hierarchical_path =
        IF parent_path # <<>> THEN Append(parent_path, c.name) ELSE <<c.name>>]

Cell_set_orientation(c, orientation) == [c EXCEPT !.orientation = orientation]

Cell_set_size(c, width, height) ==
    Cell_update_bbox([c EXCEPT !.width = width, !.height = height])

\* Faulty variant: the anchor is the bottom-left corner whatever the orientation
get_placement_origin_bottom_left(c) == <<c.absolute_x, c.absolute_y>>

get_placement_origin(c) ==
    IF c.orientation = "N" THEN <<c.absolute_x, c.absolute_y>>
    ELSE IF c.orientation = "S" THEN <<c.absolute_x + c.width, c.absolute_y + c.height>>
    ELSE IF c.orientation = "FN" THEN <<c.absolute_x + c.width, c.absolute_y>>
    ELSE IF c.orientation = "FS" THEN <<c.absolute_x, c.absolute_y + c.height>>
    ELSE <<c.absolute_x, c.absolute_y>>

\* Faulty variant: the groups are {FN, N} and {FS, S}, and the second group
\* alternates between S and FS
get_orientation_for_row_by_mirror(c, row_y) ==
    LET grid_y == PyRound(row_y, c.site_info.height)
    IN  IF c.orientation \in {"FN", "N"}
        THEN IF grid_y % 2 = 0 THEN "FS" ELSE "N"
        ELSE IF grid_y % 2 = 0 THEN "S" ELSE "FS"

\* Faulty variant: the row is ignored
get_orientation_for_row_any_row(c, row_y) ==
    IF c.orientation \in {"FS", "N"} THEN "FS" ELSE "S"

\* Faulty variant: the row orientation is taken from the other group
get_orientation_for_row_other_group(c, row_y) ==
    LET grid_y == PyRound(row_y, c.site_info.height)
    IN  IF c.orientation \in {"FS", "N"}
        THEN (IF grid_y % 2 = 0 THEN "S" ELSE "FN")
        ELSE (IF grid_y % 2 = 0 THEN "FS" ELSE "N")

get_orientation_for_row(c, row_y) ==
    LET grid_y == PyRound(row_y, c.site_info.height)
        left_ori == {"FS", "N"}
    IN  IF c.orientation \in left_ori
        THEN (IF grid_y % 2 = 0 THEN "FS" ELSE "N")
        ELSE (IF grid_y % 2 = 0 THEN "S" ELSE "FN")

flip_oritentation(c) ==
    [c EXCEPT !.orientation =
        IF c.orientation = "N" THEN "FN"
        ELSE IF c.orientation = "S" THEN "FS"
        ELSE IF c.orientation = "FN" THEN "N"
        ELSE IF c.orientation = "FS" THEN "S"
        ELSE c.orientation]

Cell_get_bbox(c) == <<c.bbox_min_x, c.bbox_min_y, c.bbox_max_x, c.bbox_max_y>>

\* Cell.clone: a new Cell; the bbox is the one __post_init__ computed from
\* (x, y), since clone() copies absolute_x/y afterwards without _update_bbox.
Cell_clone(c) ==
    Cell_update_grid_coordinates(
        [Cell_init(c.name, c.x, c.y, c.orientation, c.width, c.height)
            EXCEPT !.hierarchical_path = c.hierarchical_path,
                   !.site_info = c.site_info,
                   !.absolute_x = c.absolute_x,
                   !.absolute_y = c.absolute_y])

-----------------------------------------------------------------------------
(* The object heaps.  A world W is [micros |-> heap, cells |-> heap]; every  *)
(* method takes the world it runs in and returns the world it leaves.  A new *)
(* object is appended, so the object a constructor call makes in W is        *)
(* Len(W.micros) + 1 (resp. Len(W.cells) + 1).                               *)

World(m, c) == [micros |-> m, cells |-> c]

\* LET x == v IN Body(x), with v evaluated once, before Body
Then(v, Body(_)) == CHOOSE r \in {Body(x) : x \in {v}} : TRUE

AllocCell(W, c) == [W EXCEPT !.cells = Append(@, c)]

\* "new_name or self.name": the empty string stands for None
NoName == ""

\* Position of v in the sequence s (0 when absent)
IndexOf(s, v) ==
    IF \E k \in 1..Len(s) : s[k] = v
    THEN CHOOSE k \in 1..Len(s) : s[k] = v /\ \A j \in 1..(k - 1) : s[j] # v
    ELSE 0

SeqMin(s) == CHOOSE v \in {s[k] : k \in 1..Len(s)} : \A j \in 1..Len(s) : v <= s[j]
SeqMax(s) == CHOOSE v \in {s[k] : k \in 1..Len(s)} : \A j \in 1..Len(s) : v >= s[j]

-----------------------------------------------------------------------------
(* Micro *)

RECURSIVE Micro_set_hierarchical_path(_, _, _), PathSubs(_, _, _)
RECURSIVE set_origin(_, _, _, _), update_absolute_positions(_, _), UpdateSubs(_, _, _)
RECURSIVE get_all_cells(_, _), AllCellsOfSubs(_, _, _)
RECURSIVE get_all_sub_micros(_, _), AllSubsOfSubs(_, _, _)
RECURSIVE Micro_clone(_, _, _), CloneSubs(_, _, _, _), add_sub_micro(_, _, _)
RECURSIVE flip_horizontal(_, _), FlipSubs(_, _, _, _)
RECURSIVE Micro_to_dict(_, _), DictsOfSubs(_, _, _)
RECURSIVE load_from_dict(_, _), LoadSubs(_, _, _, _)

\* Micro.__init__: the origin is stored as given; there are no cells or
\* sub-micros yet, so _update_absolute_positions() has nothing to do.
Micro_init(W, name, origin_x, origin_y, site) ==
    LET g == to_grid_coords(site, origin_x, origin_y)
    IN  [W EXCEPT !.micros = Append(@,
            [name |-> name, origin_x |-> origin_x, origin_y |-> origin_y,
             site_info |-> site, cells |-> <<>>, sub_micros |-> <<>>,
             parent |-> <<>>, hierarchical_path |-> <<name>>,
             grid_x |-> g[1], grid_y |-> g[2],
             rel_grid_x |-> 0, rel_grid_y |-> 0])]

\* for cell in self.cells: cell.set_hierarchical_path(self.hierarchical_path)
RECURSIVE PathCells(_, _, _)
PathCells(W, self, i) ==
    IF i > Len(W.micros[self].cells) THEN W
    ELSE LET c == W.micros[self].cells[i]
         IN  PathCells([W EXCEPT !.cells[c] =
                          Cell_set_hierarchical_path(@, W.micros[self].hierarchical_path)],
                       self, i + 1)

PathSubs(W, self, i) ==
    IF i > Len(W.micros[self].sub_micros) THEN W
    ELSE PathSubs(Micro_set_hierarchical_path(W, W.micros[self].sub_micros[i],
                                              W.micros[self].hierarchical_path),
                  self, i + 1)

\* Faulty variant: the paths of the sub-micros are left as they were
set_hierarchical_path_shallow(W, self, parent_path) ==
    LET W1 == [W EXCEPT !.micros[self].hierarchical_path =
                   IF parent_path # <<>> THEN Append(parent_path, W.micros[self].name)
                   ELSE <<W.micros[self].name>>]
    IN  PathCells(W1, self, 1)

Micro_set_hierarchical_path(W, self, parent_path) ==
    LET W1 == [W EXCEPT !.micros[self].hierarchical_path =
                   IF parent_path # <<>> THEN Append(parent_path, W.micros[self].name)
                   ELSE <<W.micros[self].name>>]
    IN  PathSubs(PathCells(W1, self, 1), self, 1)

\* Faulty variant: the copy is stored where the caller's cell was, without
\* being placed at the owner's origin
add_cell_unplaced(W, self, cell) ==
    LET m == W.micros[self]
        cell_cpy == Cell_set_hierarchical_path(Cell_clone(W.cells[cell]),
                                               m.hierarchical_path)
    IN  [AllocCell(W, cell_cpy) EXCEPT !.micros[self].cells = Append(@, Len(W.cells) + 1)]

add_cell(W, self, cell) ==
    LET m == W.micros[self]
        cell_cpy == Cell_set_hierarchical_path(
                        Cell_set_absolute_position(Cell_clone(W.cells[cell]),
                                                   m.origin_x, m.origin_y, m.site_info),
                        m.hierarchical_path)
    IN  [AllocCell(W, cell_cpy) EXCEPT !.micros[self].cells = Append(@, Len(W.cells) + 1)]

Micro_update_grid_coordinates(W, self) ==
    LET m == W.micros[self]
        g == to_grid_coords(m.site_info, m.origin_x, m.origin_y)
        p == IF m.parent # <<>>
             THEN to_grid_coords(W.micros[m.parent[1]].site_info,
                                 W.micros[m.parent[1]].origin_x,
                                 W.micros[m.parent[1]].origin_y)
             ELSE <<0, 0>>
    IN  [W EXCEPT !.micros[self].grid_x = g[1], !.micros[self].grid_y = g[2],
                  !.micros[self].rel_grid_x = g[1] - p[1],
                  !.micros[self].rel_grid_y = g[2] - p[2]]

\* for cell in self.cells: set_absolute_position, then the row orientation
RECURSIVE UpdateCells(_, _, _)
UpdateCells(W, self, i) ==
    IF i > Len(W.micros[self].cells) THEN W
    ELSE LET m == W.micros[self]
             c == m.cells[i]
         IN  UpdateCells(
                [W EXCEPT !.cells[c] =
                    Then(Cell_set_absolute_position(W.cells[c], m.origin_x, m.origin_y,
                                                    m.site_info),
                         LAMBDA cell :
                            Cell_set_orientation(cell,
                                get_orientation_for_row(cell, cell.absolute_y)))],
                self, i + 1)

\* for sub_micro in self.sub_micros:
\*     sub_micro.set_origin(self.origin_x + sub_micro.origin_x, ...)
UpdateSubs(W, self, i) ==
    IF i > Len(W.micros[self].sub_micros) THEN W
    ELSE LET s == W.micros[self].sub_micros[i]
         IN  UpdateSubs(set_origin(W, s,
                                   W.micros[self].origin_x + W.micros[s].origin_x,
                                   W.micros[self].origin_y + W.micros[s].origin_y),
                        self, i + 1)

update_absolute_positions(W, self) == UpdateSubs(UpdateCells(W, self, 1), self, 1)

set_origin(W, self, x, y) ==
    LET snapped == snap_to_grid(W.micros[self].site_info, x, y)
        W1 == [W EXCEPT !.micros[self].origin_x = snapped[1],
                        !.micros[self].origin_y = snapped[2]]
    IN  update_absolute_positions(Micro_update_grid_coordinates(W1, self), self)

set_origin_by_grid(W, self, grid_x, grid_y) ==
    LET p == from_grid_coords(W.micros[self].site_info, grid_x, grid_y)
    IN  set_origin(W, self, p[1], p[2])

move_by(W, self, dx, dy) ==
    LET snapped == snap_to_grid(W.micros[self].site_info, dx, dy)
        W1 == [W EXCEPT !.micros[self].origin_x = @ + snapped[1],
                        !.micros[self].origin_y = @ + snapped[2]]
    IN  update_absolute_positions(Micro_update_grid_coordinates(W1, self), self)

move_by_grid(W, self, dgrid_x, dgrid_y) ==
    move_by(W, self, dgrid_x * W.micros[self].site_info.width,
                     dgrid_y * W.micros[self].site_info.height)

AllCellsOfSubs(W, self, i) ==
    IF i > Len(W.micros[self].sub_micros) THEN <<>>
    ELSE get_all_cells(W, W.micros[self].sub_micros[i]) \o AllCellsOfSubs(W, self, i + 1)

\* Faulty variant: the cells of the sub-micros come before the micro's own
get_all_cells_children_first(W, self) == AllCellsOfSubs(W, self, 1) \o W.micros[self].cells

get_all_cells(W, self) == W.micros[self].cells \o AllCellsOfSubs(W, self, 1)

AllSubsOfSubs(W, self, i) ==
    IF i > Len(W.micros[self].sub_micros) THEN <<>>
    ELSE LET s == W.micros[self].sub_micros[i]
         IN  <<s>> \o get_all_sub_micros(W, s) \o AllSubsOfSubs(W, self, i + 1)

get_all_sub_micros(W, self) == AllSubsOfSubs(W, self, 1)

calculate_bounding_box(W, self) ==
    Then(get_all_cells(W, self), LAMBDA all_cells :
        LET box(k) == [i \in 1..Len(all_cells) |-> Cell_get_bbox(W.cells[all_cells[i]])[k]]
        IN  IF all_cells = <<>> THEN <<0, 0, 0, 0>>
            ELSE <<SeqMin(box(1)), SeqMin(box(2)), SeqMax(box(3)), SeqMax(box(4))>>)

\* Faulty variant: the clone takes the source's Cell objects as they are
CloneCells_shared(W, self, cloned_micro, i) ==
    [W EXCEPT !.micros[cloned_micro].cells = W.micros[self].cells]

\* for cell in self.cells: cloned_micro.add_cell(cell.clone())
RECURSIVE CloneCells(_, _, _, _)
CloneCells(W, self, cloned_micro, i) ==
    IF i > Len(W.micros[self].cells) THEN W
    ELSE CloneCells(add_cell(AllocCell(W, Cell_clone(W.cells[W.micros[self].cells[i]])),
                             cloned_micro, Len(W.cells) + 1),
                    self, cloned_micro, i + 1)

\* for sub_micro in self.sub_micros: cloned_micro.add_sub_micro(sub_micro.clone())
CloneSubs(W, self, cloned_micro, i) ==
    IF i > Len(W.micros[self].sub_micros) THEN W
    ELSE CloneSubs(add_sub_micro(Micro_clone(W, W.micros[self].sub_micros[i], NoName),
                                 cloned_micro, Len(W.micros) + 1),
                   self, cloned_micro, i + 1)

\* Micro.clone: the clone is object Len(W.micros) + 1 of the world returned
Micro_clone(W, self, new_name) ==
    LET m == W.micros[self]
        cloned_micro == Len(W.micros) + 1
    IN  CloneSubs(
            CloneCells(
                Micro_init(W, IF new_name # NoName THEN new_name ELSE m.name,
                           m.origin_x, m.origin_y,
                           SiteInfo(m.site_info.width, m.site_info.height)),
                self, cloned_micro, 1),
            self, cloned_micro, 1)

\* Faulty variant: a copy is made and placed, but the argument itself is
\* what ends up in sub_micros
add_sub_micro_shared(W, self, sub_micro) ==
    LET sub_micro_cpy == Len(W.micros) + 1
    IN  Then(Micro_clone(W, sub_micro, NoName), LAMBDA W1 :
        Then(Micro_set_hierarchical_path(
                 [W1 EXCEPT !.micros[sub_micro_cpy].parent = <<self>>],
                 sub_micro_cpy, W1.micros[self].hierarchical_path), LAMBDA W2 :
        [set_origin(W2, sub_micro_cpy,
                    W2.micros[self].origin_x + W2.micros[sub_micro_cpy].origin_x,
                    W2.micros[self].origin_y + W2.micros[sub_micro_cpy].origin_y)
            EXCEPT !.micros[self].sub_micros = Append(@, sub_micro)]))

add_sub_micro(W, self, sub_micro) ==
    LET sub_micro_cpy == Len(W.micros) + 1
    IN  Then(Micro_clone(W, sub_micro, NoName), LAMBDA W1 :
        Then(Micro_set_hierarchical_path(
                 [W1 EXCEPT !.micros[sub_micro_cpy].parent = <<self>>],
                 sub_micro_cpy, W1.micros[self].hierarchical_path), LAMBDA W2 :
        [set_origin(W2, sub_micro_cpy,
                    W2.micros[self].origin_x + W2.micros[sub_micro_cpy].origin_x,
                    W2.micros[self].origin_y + W2.micros[sub_micro_cpy].origin_y)
            EXCEPT !.micros[self].sub_micros = Append(@, sub_micro_cpy)]))

\* remove_cell / remove_sub_micro: drop the first entry with that name
RemoveAt(s, k) == [i \in 1..(Len(s) - 1) |-> IF i < k THEN s[i] ELSE s[i + 1]]

FirstNamed(heap, ids, name) ==
    IF \E k \in 1..Len(ids) : heap[ids[k]].name = name
    THEN CHOOSE k \in 1..Len(ids) :
            /\ heap[ids[k]].name = name
            /\ \A j \in 1..(k - 1) : heap[ids[j]].name # name
    ELSE 0

remove_cell(W, self, cell_name) ==
    LET k == FirstNamed(W.cells, W.micros[self].cells, cell_name)
    IN  IF k = 0 THEN W ELSE [W EXCEPT !.micros[self].cells = RemoveAt(@, k)]

remove_sub_micro(W, self, micro_name) ==
    LET k == FirstNamed(W.micros, W.micros[self].sub_micros, micro_name)
    IN  IF k = 0 THEN W ELSE [W EXCEPT !.micros[self].sub_micros = RemoveAt(@, k)]

\* for cell in self.cells: mirror the stored x about the box width, flip
RECURSIVE FlipCells(_, _, _, _)
FlipCells(W, self, max_x, i) ==
    IF i > Len(W.micros[self].cells) THEN W
    ELSE LET c == W.micros[self].cells[i]
             cell == W.cells[c]
             moved == Cell_set_rel_position(cell,
                          max_x - cell.x - (cell.bbox_max_x - cell.bbox_min_x),
                          cell.y, W.micros[self].site_info)
         IN  FlipCells([W EXCEPT !.cells[c] = flip_oritentation(moved)], self, max_x, i + 1)

FlipSubs(W, self, max_x, i) ==
    IF i > Len(W.micros[self].sub_micros) THEN W
    ELSE LET s == W.micros[self].sub_micros[i]
         IN  Then(calculate_bounding_box(W, s), LAMBDA box :
                FlipSubs(
                    flip_horizontal(
                        set_origin(W, s, max_x - W.micros[s].origin_x - (box[3] - box[1]),
                                   W.micros[s].origin_y),
                        s),
                    self, max_x, i + 1))

flip_horizontal(W, self) ==
    Then(calculate_bounding_box(W, self), LAMBDA box :
        update_absolute_positions(
            Micro_update_grid_coordinates(
                FlipSubs(FlipCells(W, self, box[3] - box[1], 1), self, box[3] - box[1], 1),
                self),
            self))

-----------------------------------------------------------------------------
(* Serialisation.  A JSON document is a nested record.  round(v, 3) is the  *)
(* identity on the coordinates of the model, which are multiples of 0.035   *)
(* and 0.45; json.dump / json.load reproduce numbers and strings exactly.   *)

Cell_to_dict(c) ==
    LET placement == get_placement_origin(c)
    IN  [name |-> c.name, rel_x |-> c.x, rel_y |-> c.y,
         rel_grid_x |-> c.rel_grid_x, rel_grid_y |-> c.rel_grid_y,
         abs_x |-> c.absolute_x, abs_y |-> c.absolute_y,
         placement_x |-> placement[1], placement_y |-> placement[2],
         grid_x |-> c.grid_x, grid_y |-> c.grid_y,
         width |-> c.width, height |-> c.height,
         orientation |-> c.orientation,
         bbox |-> [min_x |-> c.bbox_min_x, min_y |-> c.bbox_min_y,
                   max_x |-> c.bbox_max_x, max_y |-> c.bbox_max_y],
         hierarchical_path |-> c.hierarchical_path]

DictsOfSubs(W, self, i) ==
    IF i > Len(W.micros[self].sub_micros) THEN <<>>
    ELSE <<Micro_to_dict(W, W.micros[self].sub_micros[i])>> \o DictsOfSubs(W, self, i + 1)

Micro_to_dict(W, self) ==
    LET m == W.micros[self]
    IN  Then(calculate_bounding_box(W, self), LAMBDA box :
        [name |-> m.name, origin_x |-> m.origin_x, origin_y |-> m.origin_y,
         grid_x |-> m.grid_x, grid_y |-> m.grid_y,
         rel_grid_x |-> m.rel_grid_x, rel_grid_y |-> m.rel_grid_y,
         site_info |-> [width |-> m.site_info.width, height |-> m.site_info.height],
         hierarchical_path |-> m.hierarchical_path,
         cells |-> [i \in 1..Len(m.cells) |-> Cell_to_dict(W.cells[m.cells[i]])],
         sub_micros |-> DictsOfSubs(W, self, 1),
         bounding_box |-> [min_x |-> box[1], min_y |-> box[2],
                           max_x |-> box[3], max_y |-> box[4]]])

\* for cell_data in micro_data["cells"]: micro.add_cell(Cell(...))
RECURSIVE LoadCells(_, _, _, _)
LoadCells(W, micro_data, micro, i) ==
    IF i > Len(micro_data.cells) THEN W
    ELSE LET cell_data == micro_data.cells[i]
         IN  LoadCells(
                add_cell(AllocCell(W, Cell_init(cell_data.name, cell_data.rel_x,
                                                cell_data.rel_y, cell_data.orientation,
                                                cell_data.width, cell_data.height)),
                         micro, Len(W.cells) + 1),
                micro_data, micro, i + 1)

\* for sub_micro_data in micro_data["sub_micros"]:
\*     micro.add_sub_micro(cls._load_from_dict(sub_micro_data))
LoadSubs(W, micro_data, micro, i) ==
    IF i > Len(micro_data.sub_micros) THEN W
    ELSE LoadSubs(add_sub_micro(load_from_dict(W, micro_data.sub_micros[i]),
                                micro, Len(W.micros) + 1),
                  micro_data, micro, i + 1)

\* Micro._load_from_dict: the Micro built is object Len(W.micros) + 1
load_from_dict(W, micro_data) ==
    LET micro == Len(W.micros) + 1
    IN  LoadSubs(
            LoadCells(
                Micro_init(W, micro_data.name, micro_data.origin_x, micro_data.origin_y,
                           SiteInfo(micro_data.site_info.width,
                                    micro_data.site_info.height)),
                micro_data, micro, 1),
            micro_data, micro, 1)

\* Micro.export_to_file / Micro.load_from_file: the file holds to_dict();
\* load_from_file has the body of _load_from_dict.
export_to_file(W, self) == Micro_to_dict(W, self)

load_from_file(W, micro_data) == load_from_dict(W, micro_data)

-----------------------------------------------------------------------------
(* Object lifetime.  Objects no variable leads to are dropped after every    *)
(* call, as Python's reference counting does, and the survivors are          *)
(* renumbered in the order a walk from the variables meets them, so that an  *)
(* object keeps its id across a call that neither makes nor drops objects.   *)

Entries(dict) == [i \in 1..Len(dict) |-> dict[i].micro]

RECURSIVE Walk(_, _, _)
Walk(W, order, stack) ==
    IF stack = <<>> THEN order
    ELSE IF IndexOf(order, Head(stack)) # 0 THEN Walk(W, order, Tail(stack))
    ELSE Walk(W, Append(order, Head(stack)),
              W.micros[Head(stack)].sub_micros \o W.micros[Head(stack)].parent
                  \o Tail(stack))

RECURSIVE WalkCells(_, _, _, _)
WalkCells(W, order, corder, stack) ==
    IF stack # <<>>
    THEN WalkCells(W, order,
                   IF IndexOf(corder, Head(stack)) # 0 THEN corder
                   ELSE Append(corder, Head(stack)),
                   Tail(stack))
    ELSE IF order = <<>> THEN corder
    ELSE WalkCells(W, Tail(order), corder, W.micros[Head(order)].cells)

LiveMicros(W, h, am, mt) == Walk(W, <<>>, Entries(h) \o Entries(am) \o Entries(mt))

LiveCells(W, order, hc) == WalkCells(W, <<>>, WalkCells(W, order, <<>>, <<>>), hc)

Renumber(ids, order) == [k \in 1..Len(ids) |-> IndexOf(order, ids[k])]

RenumberDict(dict, order) ==
    [i \in 1..Len(dict) |-> [dict[i] EXCEPT !.micro = IndexOf(order, @)]]

\* What a call leaves behind: world W, the caller's variables h and hc, the
\* engine's and the library's dicts am and mt, and the call itself.
Settle(W, h, hc, am, mt, call) ==
    Then(LiveMicros(W, h, am, mt), LAMBDA order :
    Then(LiveCells(W, order, hc), LAMBDA corder :
        [micros |-> [i \in 1..Len(order) |->
                        [W.micros[order[i]] EXCEPT
                            !.cells = Renumber(@, corder),
                            !.sub_micros = Renumber(@, order),
                            !.parent = Renumber(@, order)]],
         cells |-> [i \in 1..Len(corder) |-> W.cells[corder[i]]],
         held |-> RenumberDict(h, order),
         heldCells |-> Renumber(hc, corder),
         active_micros |-> RenumberDict(am, order),
         micro_templates |-> RenumberDict(mt, order),
         last |-> [call EXCEPT !.self = IndexOf(order, @),
                               !.other = IndexOf(order, @),
                               !.cell = IndexOf(corder, @)]]))

Commit(W, h, hc, am, mt, fl, call) ==
    \E s \in {Settle(W, h, hc, am, mt, call)} :
        /\ Len(s.micros) <= MaxMicros
        /\ Len(s.cells) <= MaxCells
        /\ micros' = s.micros
        /\ cells' = s.cells
        /\ held' = s.held
        /\ heldCells' = s.heldCells
        /\ active_micros' = s.active_micros
        /\ micro_templates' = s.micro_templates
        /\ files' = fl
        /\ global_placements' = global_placements
        /\ last' = s.last
        /\ nsteps' = nsteps + 1

Call(op, self, other, cell) == [op |-> op, self |-> self, other |-> other, cell |-> cell]

\* The record of a call m.op(x, y), with the pair it was given
CallAt(op, self, origin) ==
    [op |-> op, self |-> self, other |-> 0, cell |-> 0, origin |-> origin]

\* The record of a call m.op(), with what the tree was before it
CallFrom(op, self, before) ==
    [op |-> op, self |-> self, other |-> 0, cell |-> 0, before |-> before]

\* The tree under m as flip_horizontal handles it: the origin of every micro
\* and the stored position of every cell
RECURSIVE Layout(_, _)
Layout(W, m) ==
    [origin |-> <<W.micros[m].origin_x, W.micros[m].origin_y>>,
     cells |-> [i \in 1..Len(W.micros[m].cells) |->
                  <<W.cells[W.micros[m].cells[i]].x, W.cells[W.micros[m].cells[i]].y>>],
     sub_micros |-> [i \in 1..Len(W.micros[m].sub_micros) |->
                       Layout(W, W.micros[m].sub_micros[i])]]

Here == World(micros, cells)

\* A call on objects the caller holds: the engine and the library stay as they are
CommitCaller(W, h, hc, call) ==
    Commit(W, h, hc, active_micros, micro_templates, files, call)

-----------------------------------------------------------------------------
(* Inputs *)

Names == {"A", "B"}

\* (x, y) of a new Micro or of set_origin: on the grid and off it
OriginInputs == {<<0, 0>>, <<SiteWidth, SiteHeight>>, <<SiteWidth + 1, 1>>}

\* (dx, dy) of move_by
DeltaInputs == {<<SiteWidth, SiteHeight>>, <<0 - 1, 0 - SiteHeight>>}

\* (grid_x, grid_y) of set_origin_by_grid and move_by_grid
GridInputs == {<<1, 1>>, <<0, 0 - 1>>}

\* Cell(name, x, y, orientation, width, height)
CellN == <<"c", 0, 0, "N", SiteWidth, SiteHeight>>
CellFN == <<"d", SiteWidth, 0, "FN", 2 * SiteWidth, SiteHeight>>
CellS == <<"c", 1, SiteHeight, "S", SiteWidth, 2 * SiteHeight>>
CellFS == <<"d", 2 * SiteWidth, SiteHeight + 1, "FS", SiteWidth, SiteHeight>>

CellInputs == {CellN, CellFN, CellS, CellFS}

NewCellObject(W, i) == AllocCell(W, Cell_init(i[1], i[2], i[3], i[4], i[5], i[6]))

\* m.add_cell(Cell(...)) in world W
AddCellInput(W, m, i) == add_cell(NewCellObject(W, i), m, Len(W.cells) + 1)

Held == {held[i].micro : i \in 1..Len(held)}

\* The caller's variables after  v = <object m>  /  v = <clone of variable k>
Assign(m) == Append(held, [micro |-> m, src |-> 0])
AssignClone(m, k) == Append(held, [micro |-> m, src |-> k])

-----------------------------------------------------------------------------
(* Initial states: nothing constructed yet, or one of three trees the        *)
(* caller has built with the constructors, add_cell and add_sub_micro.       *)

Empty == World(<<>>, <<>>)

\* A = Micro("A", 4, 2); A.add_cell(c); A.add_cell(d)
SceneFlat ==
    [W |-> AddCellInput(
               AddCellInput(Micro_init(Empty, "A", SiteWidth, SiteHeight, DefaultSiteInfo),
                            1, CellN),
               1, CellFN),
     held |-> <<[micro |-> 1, src |-> 0]>>]

\* B = Micro("B", 4, 2); B.add_cell(c'); A = Micro("A", 0, 0); A.add_cell(c);
\* A.add_sub_micro(B): B is object 1, A is object 2
SceneNested ==
    [W |-> add_sub_micro(
               AddCellInput(
                   Micro_init(
                       AddCellInput(
                           Micro_init(Empty, "B", SiteWidth, SiteHeight, DefaultSiteInfo),
                           1, CellS),
                       "A", 0, 0, DefaultSiteInfo),
                   2, CellN),
               2, 1),
     held |-> <<[micro |-> 2, src |-> 0], [micro |-> 1, src |-> 0]>>]

\* C = Micro("B", 0, 2); C.add_cell(d'); B = Micro("B", 4, 0); B.add_sub_micro(C);
\* A = Micro("A", 5, 1); A.add_cell(c); A.add_sub_micro(B): C is object 1, B is
\* object 2, the copy of C under B is object 3, A is object 4
SceneDeep ==
    [W |-> add_sub_micro(
               AddCellInput(
                   Micro_init(
                       add_sub_micro(
                           Micro_init(
                               AddCellInput(
                                   Micro_init(Empty, "B", 0, SiteHeight, DefaultSiteInfo),
                                   1, CellFS),
                               "B", SiteWidth, 0, DefaultSiteInfo),
                           2, 1),
                       "A", SiteWidth + 1, 1, DefaultSiteInfo),
                   4, CellN),
               4, 2),
     held |-> <<[micro |-> 4, src |-> 0]>>]

Scenes == {[W |-> Empty, held |-> <<>>], SceneFlat, SceneNested, SceneDeep}

Init ==
    \E scene \in Scenes :
        \E s \in {Settle(scene.W, scene.held, <<>>, <<>>, <<>>, Call("init", 0, 0, 0))} :
            /\ micros = s.micros
            /\ cells = s.cells
            /\ held = s.held
            /\ heldCells = <<>>
            /\ active_micros = <<>>
            /\ micro_templates = <<>>
            /\ files = <<>>
            /\ global_placements = <<>>
            /\ last = s.last
            /\ nsteps = 0

-----------------------------------------------------------------------------
(* The caller's calls on Micro and Cell objects *)

\* m = Micro(name, x, y)
NewMicro ==
    \E name \in Names, p \in OriginInputs :
        /\ nsteps < MaxSteps
        /\ CommitCaller(Micro_init(Here, name, p[1], p[2], DefaultSiteInfo),
                        Assign(Len(micros) + 1), heldCells,
                        Call("Micro", Len(micros) + 1, 0, 0))

\* c = Cell(name, x, y, orientation, width, height)
NewCell ==
    \E i \in CellInputs :
        /\ nsteps < MaxSteps
        /\ CommitCaller(NewCellObject(Here, i), held, Append(heldCells, Len(cells) + 1),
                        Call("Cell", 0, 0, Len(cells) + 1))

\* m.add_cell(c) with a Cell the caller holds
AddCell ==
    \E m \in Held, k \in 1..Len(heldCells) :
        /\ nsteps < MaxSteps
        /\ CommitCaller(add_cell(Here, m, heldCells[k]), held, heldCells,
                        Call("add_cell", m, 0, heldCells[k]))

\* m.add_cell(Cell(name, x, y, orientation, width, height))
AddNewCell ==
    \E m \in Held, i \in CellInputs :
        /\ nsteps < MaxSteps
        /\ CommitCaller(AddCellInput(Here, m, i), held, heldCells,
                        Call("add_cell", m, 0, Len(cells) + 2))

\* m.add_sub_micro(s), s = m included
AddSubMicro ==
    \E m \in Held, s \in Held :
        /\ nsteps < MaxSteps
        /\ CommitCaller(add_sub_micro(Here, m, s), held, heldCells,
                        Call("add_sub_micro", m, s, 0))

SetOrigin ==
    \E m \in Held, p \in OriginInputs :
        /\ nsteps < MaxSteps
        /\ CommitCaller(set_origin(Here, m, p[1], p[2]), held, heldCells,
                        CallAt("set_origin", m, p))

SetOriginByGrid ==
    \E m \in Held, g \in GridInputs :
        /\ nsteps < MaxSteps
        /\ CommitCaller(set_origin_by_grid(Here, m, g[1], g[2]), held, heldCells,
                        Call("set_origin_by_grid", m, 0, 0))

MoveBy ==
    \E m \in Held, d \in DeltaInputs :
        /\ nsteps < MaxSteps
        /\ CommitCaller(move_by(Here, m, d[1], d[2]), held, heldCells,
                        Call("move_by", m, 0, 0))

MoveByGrid ==
    \E m \in Held, g \in GridInputs :
        /\ nsteps < MaxSteps
        /\ CommitCaller(move_by_grid(Here, m, g[1], g[2]), held, heldCells,
                        Call("move_by_grid", m, 0, 0))

FlipHorizontal ==
    \E m \in Held :
        /\ nsteps < MaxSteps
        /\ CommitCaller(flip_horizontal(Here, m), held, heldCells,
                        CallFrom("flip_horizontal", m, Layout(Here, m)))

\* m2 = m.clone() / m.clone(new_name)
Clone ==
    \E k \in 1..Len(held), new_name \in {NoName, "B"} :
        /\ nsteps < MaxSteps
        /\ CommitCaller(Micro_clone(Here, held[k].micro, new_name),
                        AssignClone(Len(micros) + 1, k), heldCells,
                        Call("clone", held[k].micro, Len(micros) + 1, 0))

\* m2 = Micro._load_from_dict(m.to_dict())
LoadFromDict ==
    \E m \in Held :
        /\ nsteps < MaxSteps
        /\ CommitCaller(load_from_dict(Here, Micro_to_dict(Here, m)),
                        Assign(Len(micros) + 1), heldCells,
                        Call("load_from_dict", m, Len(micros) + 1, 0))

NextMicro ==
    \/ NewMicro
    \/ AddNewCell
    \/ AddSubMicro
    \/ SetOrigin
    \/ SetOriginByGrid
    \/ MoveBy
    \/ MoveByGrid
    \/ FlipHorizontal
    \/ Clone
    \/ LoadFromDict

SpecMicro == Init /\ [][NextMicro]_vars

\* The same calls, starting with nothing constructed
InitFresh ==
    /\ micros = <<>>
    /\ cells = <<>>
    /\ held = <<>>
    /\ heldCells = <<>>
    /\ active_micros = <<>>
    /\ micro_templates = <<>>
    /\ files = <<>>
    /\ global_placements = <<>>
    /\ last = Call("init", 0, 0, 0)
    /\ nsteps = 0

SpecFresh == InitFresh /\ [][NextMicro]_vars

-----------------------------------------------------------------------------
(* Clones and copies: the calls above, together with the calls that take a   *)
(* Cell the caller holds, the removals, and the setters of a Cell the caller *)
(* reaches through a tree or holds.                                          *)

CellNames == {"c", "d"}

\* m.remove_cell(name)
RemoveCell ==
    \E m \in Held, name \in CellNames :
        /\ nsteps < MaxSteps
        /\ CommitCaller(remove_cell(Here, m, name), held, heldCells,
                        Call("remove_cell", m, 0, 0))

\* m.remove_sub_micro(name)
RemoveSubMicro ==
    \E m \in Held, name \in Names :
        /\ nsteps < MaxSteps
        /\ CommitCaller(remove_sub_micro(Here, m, name), held, heldCells,
                        Call("remove_sub_micro", m, 0, 0))

\* c.set_rel_position(x, y) on any Cell object
CellSetRelPosition ==
    \E c \in 1..Len(cells) :
        /\ nsteps < MaxSteps
        /\ CommitCaller([Here EXCEPT !.cells[c] =
                            Cell_set_rel_position(@, SiteWidth, SiteHeight, @.site_info)],
                        held, heldCells, Call("set_rel_position", 0, 0, c))

\* c.set_size(width, height) on any Cell object
CellSetSize ==
    \E c \in 1..Len(cells) :
        /\ nsteps < MaxSteps
        /\ CommitCaller([Here EXCEPT !.cells[c] =
                            Cell_set_size(@, 3 * SiteWidth, SiteHeight)],
                        held, heldCells, Call("set_size", 0, 0, c))

\* c = Cell("c", ...); A = Micro("A", 4, 2); A.add_cell(c);
\* A.add_sub_micro(Micro("B", 4, 0).add_cell(d)); A2 = A.clone():
\* c is cell 1, A is micro 1, the temporary B is micro 2, A2 is micro 4
ScenePair ==
    [W |-> Micro_clone(
               add_sub_micro(
                   AddCellInput(
                       Micro_init(
                           add_cell(
                               Micro_init(NewCellObject(Empty, CellS), "A",
                                          SiteWidth, SiteHeight, DefaultSiteInfo),
                               1, 1),
                           "B", SiteWidth, 0, DefaultSiteInfo),
                       2, CellFN),
                   1, 2),
               1, NoName),
     held |-> <<[micro |-> 1, src |-> 0], [micro |-> 4, src |-> 1]>>,
     heldCells |-> <<1>>]

InitClone ==
    \E s \in {Settle(ScenePair.W, ScenePair.held, ScenePair.heldCells, <<>>, <<>>,
                     Call("init", 0, 0, 0))} :
        /\ micros = s.micros
        /\ cells = s.cells
        /\ held = s.held
        /\ heldCells = s.heldCells
        /\ active_micros = <<>>
        /\ micro_templates = <<>>
        /\ files = <<>>
        /\ global_placements = <<>>
        /\ last = s.last
        /\ nsteps = 0

NextClone ==
    \/ NextMicro
    \/ NewCell
    \/ AddCell
    \/ RemoveCell
    \/ RemoveSubMicro
    \/ CellSetRelPosition
    \/ CellSetSize

SpecClone == InitClone /\ [][NextClone]_vars

-----------------------------------------------------------------------------
(* MicroLibrary and PlaceCellEngine.  A Python dict is the sequence of its   *)
(* entries in insertion order; the library directory is the sequence files   *)
(* of [name, data], data being the JSON document written.  Each file entry   *)
(* also remembers, for the properties only, the geometry the saved tree had  *)
(* when it was written (snapshot).                                           *)

DictHas(d, name) == \E i \in 1..Len(d) : d[i].name = name

DictGet(d, name) == d[CHOOSE i \in 1..Len(d) : d[i].name = name].micro

DictSet(d, name, m) ==
    IF DictHas(d, name)
    THEN [i \in 1..Len(d) |-> IF d[i].name = name THEN [d[i] EXCEPT !.micro = m] ELSE d[i]]
    ELSE Append(d, [name |-> name, micro |-> m])

DictDel(d, name) == SelectSeq(d, LAMBDA e : e.name # name)

FileData(fl, name) == fl[CHOOSE i \in 1..Len(fl) : fl[i].name = name].data

FileWrite(fl, name, data, snapshot) ==
    IF DictHas(fl, name)
    THEN [i \in 1..Len(fl) |->
             IF fl[i].name = name
             THEN [name |-> name, data |-> data, snapshot |-> snapshot] ELSE fl[i]]
    ELSE Append(fl, [name |-> name, data |-> data, snapshot |-> snapshot])

\* Origin, stored and absolute cell positions, orientations at every node
RECURSIVE Shape(_, _)
Shape(W, m) ==
    [origin |-> <<W.micros[m].origin_x, W.micros[m].origin_y>>,
     cells |-> [i \in 1..Len(W.micros[m].cells) |->
                  [stored |-> <<W.cells[W.micros[m].cells[i]].x,
                                W.cells[W.micros[m].cells[i]].y>>,
                   absolute |-> <<W.cells[W.micros[m].cells[i]].absolute_x,
                                  W.cells[W.micros[m].cells[i]].absolute_y>>,
                   orientation |-> W.cells[W.micros[m].cells[i]].orientation]],
     sub_micros |-> [i \in 1..Len(W.micros[m].sub_micros) |->
                       Shape(W, W.micros[m].sub_micros[i])]]

\* MicroLibrary.save_micro: the new world, template dict and files
save_micro(W, mt, fl, micro) ==
    [W |-> Micro_clone(W, micro, NoName),
     mt |-> DictSet(mt, W.micros[micro].name, Len(W.micros) + 1),
     fl |-> FileWrite(fl, W.micros[micro].name, export_to_file(W, micro), Shape(W, micro))]

\* MicroLibrary.load_micro: the new world and template dict, and the Micro
\* returned (0 for None)
load_micro(W, mt, fl, micro_name) ==
    IF DictHas(fl, micro_name)
    THEN [W |-> load_from_file(W, FileData(fl, micro_name)),
          mt |-> DictSet(mt, micro_name, Len(W.micros) + 1),
          micro |-> Len(W.micros) + 1]
    ELSE [W |-> W, mt |-> mt, micro |-> 0]

\* MicroLibrary.create_micro_from_template
Library_create_micro_from_template(W, mt, fl, template_name, new_name, origin_x, origin_y) ==
    IF DictHas(mt, template_name)
    THEN [W |-> set_origin(Micro_clone(W, DictGet(mt, template_name), new_name),
                           Len(W.micros) + 1, origin_x, origin_y),
          mt |-> mt,
          micro |-> Len(W.micros) + 1]
    ELSE Then(load_micro(W, mt, fl, template_name), LAMBDA L :
            IF L.micro # 0
            THEN [W |-> set_origin(Micro_clone(L.W, L.micro, new_name),
                                   Len(L.W.micros) + 1, origin_x, origin_y),
                  mt |-> L.mt,
                  micro |-> Len(L.W.micros) + 1]
            ELSE [W |-> W, mt |-> mt, micro |-> 0])

\* PlaceCellEngine.site_info
Engine_site_info == DefaultSiteInfo

\* PlaceCellEngine.create_micro: the new world and active_micros
create_micro(W, am, name, origin_x, origin_y) ==
    [W |-> Micro_init(W, name, origin_x, origin_y, Engine_site_info),
     am |-> DictSet(am, name, Len(W.micros) + 1)]

\* Faulty variant: an unknown template is taken for an empty one and registered
create_micro_from_template_or_empty(W, am, mt, fl, template_name, new_name, origin_x, origin_y) ==
    Then(Library_create_micro_from_template(W, mt, fl, template_name, new_name,
                                            origin_x, origin_y), LAMBDA L :
        IF L.micro # 0
        THEN [W |-> set_origin([L.W EXCEPT !.micros[L.micro].site_info = Engine_site_info],
                               L.micro, origin_x, origin_y),
              am |-> DictSet(am, new_name, L.micro),
              mt |-> L.mt,
              micro |-> L.micro]
        ELSE [W |-> create_micro(W, am, new_name, origin_x, origin_y).W,
              am |-> create_micro(W, am, new_name, origin_x, origin_y).am,
              mt |-> mt,
              micro |-> Len(W.micros) + 1])

\* PlaceCellEngine.create_micro_from_template
create_micro_from_template(W, am, mt, fl, template_name, new_name, origin_x, origin_y) ==
    Then(Library_create_micro_from_template(W, mt, fl, template_name, new_name,
                                            origin_x, origin_y), LAMBDA L :
        IF L.micro # 0
        THEN [W |-> set_origin([L.W EXCEPT !.micros[L.micro].site_info = Engine_site_info],
                               L.micro, origin_x, origin_y),
              am |-> DictSet(am, new_name, L.micro),
              mt |-> L.mt,
              micro |-> L.micro]
        ELSE [W |-> W, am |-> am, mt |-> mt, micro |-> 0])

\* PlaceCellEngine.load_micro_from_library
load_micro_from_library(W, am, mt, fl, micro_name, instance_name) ==
    Then(load_micro(W, mt, fl, micro_name), LAMBDA L :
        IF L.micro # 0
        THEN LET name == IF instance_name # NoName THEN instance_name ELSE micro_name
             IN  [W |-> Micro_set_hierarchical_path(
                            [L.W EXCEPT !.micros[L.micro].name = name,
                                        !.micros[L.micro].site_info = Engine_site_info],
                            L.micro, <<>>),
                  am |-> DictSet(am, name, L.micro),
                  mt |-> L.mt,
                  micro |-> L.micro]
        ELSE [W |-> W, am |-> am, mt |-> mt, micro |-> 0])

\* Faulty variant: the whole registry is dropped
remove_micro_all(am, micro_name) ==
    [am |-> <<>>, result |-> DictHas(am, micro_name)]

\* PlaceCellEngine.remove_micro: the registry after the call and what it returns
remove_micro(am, micro_name) ==
    IF DictHas(am, micro_name)
    THEN [am |-> DictDel(am, micro_name), result |-> TRUE]
    ELSE [am |-> am, result |-> FALSE]

-----------------------------------------------------------------------------
(* The caller's calls on a PlaceCellEngine and on its library *)

CallNamed(op, self, other, name) ==
    [op |-> op, self |-> self, other |-> other, cell |-> 0, name |-> name]

\* The record of a call on a name that returns a value
CallNamedReturned(op, name, result) ==
    [op |-> op, self |-> 0, other |-> 0, cell |-> 0, name |-> name, result |-> result]

\* The record of a call on a name that is given an origin and returns a Micro
CallPlaced(op, other, name, origin) ==
    [op |-> op, self |-> 0, other |-> other, cell |-> 0, name |-> name, origin |-> origin]

Registered == {active_micros[i].name : i \in 1..Len(active_micros)}

EngineOrigins == {<<0, 0>>, <<SiteWidth, SiteHeight>>}

\* engine.create_micro(name, x, y)
CreateMicro ==
    \E name \in Names, p \in OriginInputs :
        /\ nsteps < MaxSteps
        /\ \E r \in {create_micro(Here, active_micros, name, p[1], p[2])} :
              Commit(r.W, held, heldCells, r.am, micro_templates, files,
                     CallNamed("create_micro", Len(micros) + 1, 0, name))

\* What a call on a name does: the world after it and the exception it raised
Raise(W, error) == [W |-> W, raised |-> error]
Return(W) == [W |-> W, raised |-> "none"]

\* Faulty variant: an unknown name is passed over in silence
place_micro_silent(W, am, micro_name, origin_x, origin_y) ==
    IF ~DictHas(am, micro_name) THEN Return(W)
    ELSE Return(set_origin(W, DictGet(am, micro_name), origin_x, origin_y))

\* PlaceCellEngine.place_micro
place_micro(W, am, micro_name, origin_x, origin_y) ==
    IF ~DictHas(am, micro_name) THEN Raise(W, "ValueError")
    ELSE Return(set_origin(W, DictGet(am, micro_name), origin_x, origin_y))

\* PlaceCellEngine.place_micro_by_grid
place_micro_by_grid(W, am, micro_name, grid_x, grid_y) ==
    IF ~DictHas(am, micro_name) THEN Raise(W, "ValueError")
    ELSE Return(set_origin_by_grid(W, DictGet(am, micro_name), grid_x, grid_y))

\* PlaceCellEngine.move_micro
move_micro(W, am, micro_name, dx, dy) ==
    IF ~DictHas(am, micro_name) THEN Raise(W, "ValueError")
    ELSE Return(move_by(W, DictGet(am, micro_name), dx, dy))

\* PlaceCellEngine.move_micro_by_grid
move_micro_by_grid(W, am, micro_name, dgrid_x, dgrid_y) ==
    IF ~DictHas(am, micro_name) THEN Raise(W, "ValueError")
    ELSE Return(move_by_grid(W, DictGet(am, micro_name), dgrid_x, dgrid_y))

\* PlaceCellEngine.flip_micro_horizontal
flip_micro_horizontal(W, am, micro_name) ==
    IF ~DictHas(am, micro_name) THEN Raise(W, "ValueError")
    ELSE Return(flip_horizontal(W, DictGet(am, micro_name)))

\* The micro registered under a name, 0 if there is none
Lookup(am, name) == IF DictHas(am, name) THEN DictGet(am, name) ELSE 0

\* The record of a call on a name that may have raised
CallRaised(op, self, name, raised) ==
    [op |-> op, self |-> self, other |-> 0, cell |-> 0, name |-> name, raised |-> raised]

\* engine.place_micro(name, x, y); an unknown name raises ValueError
PlaceMicro ==
    \E name \in Names, p \in EngineOrigins :
        /\ nsteps < MaxSteps
        /\ \E r \in {place_micro(Here, active_micros, name, p[1], p[2])} :
              Commit(r.W, held, heldCells, active_micros, micro_templates, files,
                     CallRaised("place_micro", Lookup(active_micros, name), name, r.raised))

\* engine.place_micro_by_grid(name, grid_x, grid_y)
PlaceMicroByGrid ==
    \E name \in Names, g \in GridInputs :
        /\ nsteps < MaxSteps
        /\ \E r \in {place_micro_by_grid(Here, active_micros, name, g[1], g[2])} :
              Commit(r.W, held, heldCells, active_micros, micro_templates, files,
                     CallRaised("place_micro_by_grid", Lookup(active_micros, name), name,
                                r.raised))

\* engine.move_micro(name, dx, dy)
MoveMicro ==
    \E name \in Names, d \in DeltaInputs :
        /\ nsteps < MaxSteps
        /\ \E r \in {move_micro(Here, active_micros, name, d[1], d[2])} :
              Commit(r.W, held, heldCells, active_micros, micro_templates, files,
                     CallRaised("move_micro", Lookup(active_micros, name), name, r.raised))

\* engine.move_micro_by_grid(name, dgrid_x, dgrid_y)
MoveMicroByGrid ==
    \E name \in Names, g \in GridInputs :
        /\ nsteps < MaxSteps
        /\ \E r \in {move_micro_by_grid(Here, active_micros, name, g[1], g[2])} :
              Commit(r.W, held, heldCells, active_micros, micro_templates, files,
                     CallRaised("move_micro_by_grid", Lookup(active_micros, name), name,
                                r.raised))

\* engine.flip_micro_horizontal(name)
FlipMicroHorizontal ==
    \E name \in Names :
        /\ nsteps < MaxSteps
        /\ \E r \in {flip_micro_horizontal(Here, active_micros, name)} :
              Commit(r.W, held, heldCells, active_micros, micro_templates, files,
                     CallRaised("flip_micro_horizontal", Lookup(active_micros, name), name,
                                r.raised))

\* engine.get_micro(name).add_cell(Cell(...))
GetMicroAddCell ==
    \E name \in Registered, i \in {CellN, CellFS} :
        /\ nsteps < MaxSteps
        /\ Commit(AddCellInput(Here, DictGet(active_micros, name), i),
                  held, heldCells, active_micros, micro_templates, files,
                  CallNamed("get_micro.add_cell", DictGet(active_micros, name), 0, name))

\* engine.remove_micro(name): False, and nothing removed, for an unknown name
RemoveMicro ==
    \E name \in Names :
        /\ nsteps < MaxSteps
        /\ \E r \in {remove_micro(active_micros, name)} :
              Commit(Here, held, heldCells, r.am, micro_templates, files,
                     CallNamedReturned("remove_micro", name, r.result))

\* engine.save_micro_to_library(name); an unknown name raises ValueError
SaveMicroToLibrary ==
    \E name \in Registered :
        /\ nsteps < MaxSteps
        /\ \E r \in {save_micro(Here, micro_templates, files,
                                DictGet(active_micros, name))} :
              Commit(r.W, held, heldCells, active_micros, r.mt, r.fl,
                     CallNamed("save_micro_to_library", DictGet(active_micros, name),
                               Len(micros) + 1, name))

\* engine.load_micro_from_library(micro_name) / (micro_name, instance_name)
LoadMicroFromLibrary ==
    \E micro_name \in Names, instance_name \in {NoName, "B"} :
        /\ nsteps < MaxSteps
        /\ \E r \in {load_micro_from_library(Here, active_micros, micro_templates, files,
                                             micro_name, instance_name)} :
              Commit(r.W, held, heldCells, r.am, r.mt, files,
                     CallNamed("load_micro_from_library", 0, r.micro, micro_name))

\* engine.create_micro_from_template(template_name, new_name, x, y)
CreateMicroFromTemplate ==
    \E template_name \in Names, p \in OriginInputs :
        /\ nsteps < MaxSteps
        /\ \E r \in {create_micro_from_template(Here, active_micros, micro_templates, files,
                                                template_name, "B", p[1], p[2])} :
              Commit(r.W, held, heldCells, r.am, r.mt, files,
                     CallPlaced("create_micro_from_template", r.micro, template_name, p))

\* m = engine.library.load_micro(name)
LibraryLoadMicro ==
    \E name \in Names :
        /\ nsteps < MaxSteps
        /\ \E r \in {load_micro(Here, micro_templates, files, name)} :
              Commit(r.W, IF r.micro # 0 THEN Assign(r.micro) ELSE held, heldCells,
                     active_micros, r.mt, files,
                     CallNamed("load_micro", 0, r.micro, name))

\* engine.create_micro("A", 4, 2).add_cell(c); B = Micro("B", 4, 0).add_cell(d);
\* engine.get_micro("A").add_sub_micro(B); engine.save_micro_to_library("A"):
\* A is micro 1, the temporary B is micro 2
SceneSaved ==
    save_micro(
        add_sub_micro(
            AddCellInput(
                Micro_init(
                    AddCellInput(
                        create_micro(Empty, <<>>, "A", SiteWidth, SiteHeight).W,
                        1, CellN),
                    "B", SiteWidth, 0, DefaultSiteInfo),
                2, CellFN),
            1, 2),
        <<>>, <<>>, 1)

InitEngine ==
    \E scene \in {[W |-> Empty, am |-> <<>>, mt |-> <<>>, fl |-> <<>>],
                  [W |-> SceneSaved.W, am |-> <<[name |-> "A", micro |-> 1]>>,
                   mt |-> SceneSaved.mt, fl |-> SceneSaved.fl]} :
        \E s \in {Settle(scene.W, <<>>, <<>>, scene.am, scene.mt, Call("init", 0, 0, 0))} :
            /\ micros = s.micros
            /\ cells = s.cells
            /\ held = <<>>
            /\ heldCells = <<>>
            /\ active_micros = s.active_micros
            /\ micro_templates = s.micro_templates
            /\ files = scene.fl
            /\ global_placements = <<>>
            /\ last = s.last
            /\ nsteps = 0

NextEngine ==
    \/ CreateMicro
    \/ PlaceMicro
    \/ PlaceMicroByGrid
    \/ MoveMicro
    \/ MoveMicroByGrid
    \/ FlipMicroHorizontal
    \/ GetMicroAddCell
    \/ RemoveMicro
    \/ SaveMicroToLibrary
    \/ LoadMicroFromLibrary
    \/ CreateMicroFromTemplate
    \/ LibraryLoadMicro

SpecEngine == InitEngine /\ [][NextEngine]_vars

-----------------------------------------------------------------------------
(* What the properties talk about *)

MicroIds == 1..Len(micros)

OriginCalls == {"set_origin", "set_origin_by_grid", "move_by", "move_by_grid"}

OnGrid(m) ==
    /\ m.origin_x % m.site_info.width = 0
    /\ m.origin_y % m.site_info.height = 0

\* The micros below m in world W: the least set closed under sub_micros
RECURSIVE Closure(_, _)
Closure(W, S) ==
    Then(S \cup UNION {{W.micros[m].sub_micros[i] : i \in 1..Len(W.micros[m].sub_micros)}
                          : m \in S},
         LAMBDA T : IF T = S THEN S ELSE Closure(W, T))

Children(W, m) == {W.micros[m].sub_micros[i] : i \in 1..Len(W.micros[m].sub_micros)}

Descendants(W, m) == Closure(W, Children(W, m))

\* Geometry of the tree under m: for every micro its origin and path, for
\* every cell its stored position, absolute position and orientation
RECURSIVE Geometry(_, _)
Geometry(W, m) ==
    [origin |-> <<W.micros[m].origin_x, W.micros[m].origin_y>>,
     path |-> W.micros[m].hierarchical_path,
     cells |-> [i \in 1..Len(W.micros[m].cells) |->
                  LET c == W.cells[W.micros[m].cells[i]]
                  IN  [stored |-> <<c.x, c.y>>,
                       absolute |-> <<c.absolute_x, c.absolute_y>>,
                       orientation |-> c.orientation]],
     sub_micros |-> [i \in 1..Len(W.micros[m].sub_micros) |->
                       Geometry(W, W.micros[m].sub_micros[i])]]

-----------------------------------------------------------------------------
(* C1.  Moving a parent from P to P' shifts the origin of every child        *)
(* sub-micro by exactly P' - P.  Stated for a parent and children that are   *)
(* on the grid before the call, where re-snapping changes nothing.           *)
C1_ChildrenFollowParent ==
    [][ (last'.op \in OriginCalls /\ OnGrid(micros[last'.self]))
        => \A s \in Children(Here, last'.self) :
              OnGrid(micros[s])
              => /\ micros'[s].origin_x - micros[s].origin_x
                      = micros'[last'.self].origin_x - micros[last'.self].origin_x
                 /\ micros'[s].origin_y - micros[s].origin_y
                      = micros'[last'.self].origin_y - micros[last'.self].origin_y ]_vars

(* C2.  Every leaf cell's absolute position is the root's origin plus the    *)
(* attach-time offsets of the sub-micros above it plus its stored position:  *)
(* the offsets and the stored position do not change when the root moves, so *)
(* a move of the root from P to P' shifts every leaf cell of the tree, at    *)
(* any depth, by exactly P' - P.  Stated for a root on the grid.             *)
C2_LeafCellsFollowRoot ==
    [][ (last'.op \in OriginCalls /\ OnGrid(micros[last'.self]))
        => \A m \in Descendants(Here, last'.self) :
              \A i \in 1..Len(micros[m].cells) :
                 LET c == micros[m].cells[i]
                 IN  /\ cells'[c].absolute_x - cells[c].absolute_x
                          = micros'[last'.self].origin_x - micros[last'.self].origin_x
                     /\ cells'[c].absolute_y - cells[c].absolute_y
                          = micros'[last'.self].origin_y - micros[last'.self].origin_y ]_vars

(* C3.  Every cell a Micro owns has absolute_position = that Micro's origin  *)
(* + the cell's stored position.                                             *)
C3_OwnedCellsAtOriginPlusStored ==
    \A m \in MicroIds :
        \A i \in 1..Len(micros[m].cells) :
            LET c == cells[micros[m].cells[i]]
            IN  /\ c.absolute_x = micros[m].origin_x + c.x
                /\ c.absolute_y = micros[m].origin_y + c.y

\* A flip has just run on a micro off the zero origin that owns cells and a
\* sub-micro with cells of its own
C3_Witness ==
    /\ last.op = "flip_horizontal"
    /\ micros[last.self].origin_x # 0
    /\ micros[last.self].cells # <<>>
    /\ \E s \in Children(Here, last.self) : micros[s].cells # <<>>

(* C4.  The origin of every Micro is a point of its grid.                    *)
C4_OriginOnGrid == \A m \in MicroIds : OnGrid(micros[m])

C7_RoundTrip ==
    last.op = "load_from_dict" => Geometry(Here, last.other) = Geometry(Here, last.self)

\* The row a cell is on, and the micros whose cells a move of m refreshes
RowOf(c) == PyRound(c.absolute_y, c.site_info.height)

Refreshed(m) == {m} \cup Descendants(Here, m)

\* The table as stated: groups {FN, N} and {FS, S}
C10_Table(orientation, j) ==
    IF orientation \in {"FN", "N"}
    THEN IF j % 2 = 0 THEN "FS" ELSE "N"
    ELSE IF j % 2 = 0 THEN "S" ELSE "FS"

(* C10.  get_orientation_for_row as the table: a cell whose orientation is  *)
(* Y-mirrored (FN) or canonical (N) gets X-mirrored (FS) on an even row and  *)
(* canonical on an odd row; a cell whose orientation is X-mirrored or        *)
(* 180-degree (S) gets 180-degree on an even row and X-mirrored on an odd    *)
(* row.  Read off every cell whose position a move of its owner refreshes.   *)
C10_OrientationTable ==
    [][ last'.op \in OriginCalls
        => \A m \in Refreshed(last'.self) :
              \A i \in 1..Len(micros[m].cells) :
                 LET c == micros[m].cells[i]
                 IN  cells'[c].orientation
                       = C10_Table(cells[c].orientation, RowOf(cells'[c])) ]_vars

\* The table the code implements: the groups are {FS, N} and {FN, S}; the
\* first gets FS on an even row and N on an odd row, the second S on an even
\* row and FN on an odd row
C10_TableAmended(orientation, j) ==
    IF orientation \in {"FS", "N"}
    THEN IF j % 2 = 0 THEN "FS" ELSE "N"
    ELSE IF j % 2 = 0 THEN "S" ELSE "FN"

(* C10, amended.  A cell whose orientation is X-mirrored (FS) or canonical   *)
(* (N) gets X-mirrored on an even row and canonical on an odd row; a cell    *)
(* whose orientation is Y-mirrored (FN) or 180-degree (S) gets 180-degree on *)
(* an even row and Y-mirrored on an odd row.                                 *)
C10_OrientationTableAmended ==
    [][ last'.op \in OriginCalls
        => \A m \in Refreshed(last'.self) :
              \A i \in 1..Len(micros[m].cells) :
                 LET c == micros[m].cells[i]
                 IN  cells'[c].orientation
                       = C10_TableAmended(cells[c].orientation, RowOf(cells'[c])) ]_vars

\* A move has just put a cell of the second group on an odd row and a cell
\* of the first group on an even row
C10_Witness ==
    /\ last.op \in OriginCalls
    /\ \E m \in Refreshed(last.self) :
          \E i \in 1..Len(micros[m].cells) :
              LET c == cells[micros[m].cells[i]]
              IN  c.orientation = "FN" /\ RowOf(c) % 2 = 1
    /\ \E m \in Refreshed(last.self) :
          \E i \in 1..Len(micros[m].cells) :
              LET c == cells[micros[m].cells[i]]
              IN  c.orientation = "FS" /\ RowOf(c) % 2 = 0

\* Every field of the tree under m, object identities left out
RECURSIVE FullView(_, _)
FullView(W, m) ==
    [micro |-> [W.micros[m] EXCEPT !.cells = <<>>, !.sub_micros = <<>>, !.parent = <<>>],
     cells |-> [i \in 1..Len(W.micros[m].cells) |-> W.cells[W.micros[m].cells[i]]],
     sub_micros |-> [i \in 1..Len(W.micros[m].sub_micros) |->
                       FullView(W, W.micros[m].sub_micros[i])]]

TreeCells(W, m) ==
    UNION {{W.micros[n].cells[i] : i \in 1..Len(W.micros[n].cells)}
              : n \in {m} \cup Descendants(W, m)}

MicroMutations ==
    OriginCalls \cup {"add_cell", "add_sub_micro", "flip_horizontal",
                      "remove_cell", "remove_sub_micro"}

CellMutations == {"set_rel_position", "set_size"}

\* The Micro a call mutates, the Cell a call mutates (0: none)
MutatedMicro(call) == IF call.op \in MicroMutations THEN call.self ELSE 0
MutatedCell(call) == IF call.op \in CellMutations THEN call.cell ELSE 0

(* C5.  Clone independence.  A call changes no field of any tree other than  *)
(* the one it is made on: a mutation of a clone (its origin, its cells, its  *)
(* children, a position or size of one of its cells) leaves the source and   *)
(* the source's descendants as they were, a mutation of the source leaves    *)
(* the clone as it was, and the Cell or Micro passed to add_cell or          *)
(* add_sub_micro is as it was whatever happens to the stored copy.           *)
C5_CloneIndependence ==
    [][ /\ \A j \in 1..Len(held) :
              ( /\ held'[j].micro # MutatedMicro(last')
                /\ MutatedCell(last') \notin TreeCells(World(micros', cells'), held'[j].micro) )
              => FullView(World(micros', cells'), held'[j].micro)
                    = FullView(Here, held[j].micro)
        /\ \A i \in 1..Len(heldCells) :
              heldCells'[i] # MutatedCell(last')
              => cells'[heldCells'[i]] = cells[heldCells[i]] ]_vars

\* A flip has just run on a clone whose source the caller still holds, and
\* the clone and the source now differ
C5_Witness ==
    /\ last.op = "flip_horizontal"
    /\ \E k \in 1..Len(held) :
          /\ held[k].micro = last.self
          /\ held[k].src # 0
          /\ micros[last.self].sub_micros # <<>>
          /\ FullView(Here, held[k].micro) # FullView(Here, held[held[k].src].micro)

Snapshot(name) == files[CHOOSE i \in 1..Len(files) : files[i].name = name].snapshot

(* C8.  What the library gives back for a saved name is the tree as it was   *)
(* when it was saved, whatever has happened to the live tree since: the tree *)
(* library.load_micro(name) returns, and the tree instantiated from the      *)
(* template at the origin the saved tree had, have the snapshot's origins,   *)
(* cell positions and orientations at every node.                            *)
C8_TemplateIsSnapshot ==
    ( /\ last.op \in {"load_micro", "create_micro_from_template"}
      /\ last.other # 0
      /\ <<micros[last.other].origin_x, micros[last.other].origin_y>>
            = Snapshot(last.name).origin )
    => Shape(Here, last.other) = Snapshot(last.name)

\* What library.create_micro_from_template(name, "X", 0, 0) would return in
\* world W with template dict mt and files fl
Instantiated(W, mt, fl, name) ==
    Then(Library_create_micro_from_template(W, mt, fl, name, "X", 0, 0),
         LAMBDA r : IF r.micro = 0 THEN <<>> ELSE <<FullView(r.W, r.micro)>>)

RegistryMutations ==
    {"place_micro", "move_micro_by_grid", "flip_micro_horizontal", "get_micro.add_cell"}

(* C9.  No tree of the library's cache is shared with the engine: placing,   *)
(* moving, flipping or adding a cell to an active micro never changes the    *)
(* tree that instantiating a template name produces.                         *)
C9_TemplatesNotShared ==
    [][ last'.op \in RegistryMutations
        => \A name \in Names :
              Instantiated(World(micros', cells'), micro_templates', files', name)
                 = Instantiated(Here, micro_templates, files, name) ]_vars

\* The abutment group of an orientation: TRUE for {FS, N}, FALSE for {FN, S}
AbutmentGroup(orientation) == orientation \in {"FS", "N"}

(* C11.  Row-orientation determinism.  Whenever a move refreshes a cell, the *)
(* orientation it gets is the one any cell of the same group gets on that    *)
(* row, applying get_orientation_for_row again on that row gives it again,   *)
(* and on the row above and on the row below it gives a different one.       *)
C11_RowDeterminism ==
    [][ last'.op \in OriginCalls
        => \A m \in Refreshed(last'.self) :
              \A i \in 1..Len(micros[m].cells) :
                 LET was == cells[micros[m].cells[i]]
                     now == cells'[micros[m].cells[i]]
                 IN  /\ \A d \in 1..Len(cells) :
                           ( /\ AbutmentGroup(cells[d].orientation)
                                   = AbutmentGroup(was.orientation)
                             /\ cells[d].site_info = was.site_info )
                           => get_orientation_for_row(cells[d], now.absolute_y)
                                 = now.orientation
                     /\ get_orientation_for_row(now, now.absolute_y) = now.orientation
                     /\ get_orientation_for_row(now, (RowOf(now) + 1) * now.site_info.height)
                           # now.orientation
                     /\ get_orientation_for_row(now, (RowOf(now) - 1) * now.site_info.height)
                           # now.orientation ]_vars

\* A move by one row has just changed the orientation of a cell of each group
C11_Witness ==
    /\ last.op = "move_by_grid"
    /\ \E m \in Refreshed(last.self) :
          \E i, k \in 1..Len(micros[m].cells) :
              /\ cells[micros[m].cells[i]].orientation = "N"
              /\ cells[micros[m].cells[k]].orientation = "S"

-----------------------------------------------------------------------------
(* The row scenario: the calls on Micro objects, and a move up by exactly    *)
(* one row pitch.                                                            *)

\* m.move_by(0, site_info.height)
MoveUpOneRow ==
    \E m \in Held :
        /\ nsteps < MaxSteps
        /\ CommitCaller(move_by(Here, m, 0, micros[m].site_info.height), held, heldCells,
                        Call("move_by", m, 0, 0))

NextRow ==
    \/ NextMicro
    \/ MoveUpOneRow

SpecRow == Init /\ [][NextRow]_vars

\* The cells of micro m that are canonical and stored at (0, 0)
CanonicalAtZero(m) ==
    {micros[m].cells[i] : i \in {k \in 1..Len(micros[m].cells) :
        /\ cells[micros[m].cells[k]].orientation = "N"
        /\ cells[micros[m].cells[k]].x = 0
        /\ cells[micros[m].cells[k]].y = 0}}

(* C12.  The scenario.  A canonical cell added at (0, 0) to a root at (0, 0) *)
(* is at absolute (0, 0) and still canonical right after add_cell; when the  *)
(* root then moves up by exactly one row pitch, the cell is at absolute      *)
(* (0, one pitch), on row 1, and its orientation is not what it was before   *)
(* the move.                                                                 *)
C12_RowScenario ==
    [][ /\ ( /\ last'.op = "add_cell"
             /\ micros[last'.self].origin_x = 0 /\ micros[last'.self].origin_y = 0
             /\ cells'[last'.cell].orientation = "N"
             /\ cells'[last'.cell].x = 0 /\ cells'[last'.cell].y = 0 )
           => /\ cells'[last'.cell].absolute_x = 0
              /\ cells'[last'.cell].absolute_y = 0
        /\ ( /\ last'.op = "move_by"
             /\ micros[last'.self].origin_x = 0 /\ micros[last'.self].origin_y = 0
             /\ micros'[last'.self].origin_x = 0
             /\ micros'[last'.self].origin_y = micros[last'.self].site_info.height )
           => \A c \in CanonicalAtZero(last'.self) :
                 /\ cells[c].absolute_x = 0 /\ cells[c].absolute_y = 0
                 /\ cells'[c].absolute_x = 0
                 /\ cells'[c].absolute_y = cells'[c].site_info.height
                 /\ RowOf(cells'[c]) = 1
                 /\ cells'[c].orientation # cells[c].orientation ]_vars

-----------------------------------------------------------------------------
(* Cells: the calls that make, store, move, flip and resize cells, and the   *)
(* queries on a Cell.                                                        *)

CallReturned(op, cell, result) ==
    [op |-> op, self |-> 0, other |-> 0, cell |-> cell, result |-> result]

\* c.get_placement_origin() on any Cell object
GetPlacementOrigin ==
    \E c \in 1..Len(cells) :
        /\ nsteps < MaxSteps
        /\ CommitCaller(Here, held, heldCells,
                        CallReturned("get_placement_origin", c,
                                     get_placement_origin(cells[c])))

\* c.set_orientation(o) on any Cell object
CellSetOrientation ==
    \E c \in 1..Len(cells), o \in {"S", "FN"} :
        /\ nsteps < MaxSteps
        /\ CommitCaller([Here EXCEPT !.cells[c] = Cell_set_orientation(@, o)],
                        held, heldCells, Call("set_orientation", 0, 0, c))

NextCell ==
    \/ NewCell
    \/ AddCell
    \/ AddNewCell
    \/ CellSetRelPosition
    \/ CellSetSize
    \/ CellSetOrientation
    \/ GetPlacementOrigin
    \/ MoveByGrid
    \/ FlipHorizontal

SpecCell == InitClone /\ [][NextCell]_vars

MirrorPartner(orientation) ==
    CASE orientation = "N" -> "FN"
      [] orientation = "FN" -> "N"
      [] orientation = "S" -> "FS"
      [] orientation = "FS" -> "S"

\* Width of the bounding box of micro m
BoxWidth(W, m) == calculate_bounding_box(W, m)[3] - calculate_bounding_box(W, m)[1]

(* C14.  After flip_horizontal on a container whose bounding box has width W *)
(* every cell the container owns has stored x = W - old x - cell width, its  *)
(* stored y unchanged, and the mirror-pair partner of the orientation it had *)
(* before the call (N <-> FN, S <-> FS).                                     *)
C14_FlipMirrorsCells ==
    [][ last'.op = "flip_horizontal"
        => \A i \in 1..Len(micros[last'.self].cells) :
              LET was == cells[micros[last'.self].cells[i]]
                  now == cells'[micros[last'.self].cells[i]]
              IN  /\ now.x = BoxWidth(Here, last'.self) - was.x - was.width
                  /\ now.y = was.y
                  /\ now.orientation = MirrorPartner(was.orientation) ]_vars

-----------------------------------------------------------------------------
(* Trees without cells: the calls on Micro objects, starting from a root     *)
(* that owns an empty sub-micro.                                             *)

\* A = Micro("A", x, y); A.add_sub_micro(Micro("B", 4, 0)): the temporary B is
\* micro 1, A is micro 2
SceneHollow(x, y) ==
    [W |-> add_sub_micro(
               Micro_init(Micro_init(Empty, "B", SiteWidth, 0, DefaultSiteInfo),
                          "A", x, y, DefaultSiteInfo),
               2, 1),
     held |-> <<[micro |-> 2, src |-> 0]>>]

InitHollow ==
    \E scene \in {SceneHollow(0, 0), SceneHollow(SiteWidth, SiteHeight)} :
        \E s \in {Settle(scene.W, scene.held, <<>>, <<>>, <<>>, Call("init", 0, 0, 0))} :
            /\ micros = s.micros
            /\ cells = s.cells
            /\ held = s.held
            /\ heldCells = <<>>
            /\ active_micros = <<>>
            /\ micro_templates = <<>>
            /\ files = <<>>
            /\ global_placements = <<>>
            /\ last = s.last
            /\ nsteps = 0

SpecHollow == InitHollow /\ [][NextMicro]_vars

(* C15.  flip_horizontal on a container with no cells anywhere in its        *)
(* subtree is a no-op: the origin of the container and of every sub-micro    *)
(* below it is what it was.                                                  *)
C15_FlipOfEmptyIsNoOp ==
    [][ (last'.op = "flip_horizontal" /\ get_all_cells(Here, last'.self) = <<>>)
        => \A m \in Refreshed(last'.self) :
              /\ micros'[m].origin_x = micros[m].origin_x
              /\ micros'[m].origin_y = micros[m].origin_y ]_vars

-----------------------------------------------------------------------------
(* Queries of the engine: the flattened placement list and the statistics.   *)

\* Micro.get_cell_placements: one record per cell of get_all_cells()
get_cell_placements(W, self) ==
    Then(get_all_cells(W, self), LAMBDA all_cells :
        [i \in 1..Len(all_cells) |->
            [cell |-> W.cells[all_cells[i]].hierarchical_path,
             x |-> get_placement_origin(W.cells[all_cells[i]])[1],
             y |-> get_placement_origin(W.cells[all_cells[i]])[2],
             orientation |-> W.cells[all_cells[i]].orientation,
             micro |-> W.micros[self].name]])

\* for micro_name, micro in self.active_micros.items(): extend
RECURSIVE PlacementsFrom(_, _, _)
PlacementsFrom(W, am, i) ==
    IF i > Len(am) THEN <<>>
    ELSE get_cell_placements(W, am[i].micro) \o PlacementsFrom(W, am, i + 1)

\* PlaceCellEngine.generate_global_placements
generate_global_placements(W, am) == PlacementsFrom(W, am, 1)

\* A query: nothing changes but the engine's placement list and what is returned
CommitQuery(gp, call) ==
    /\ global_placements' = gp
    /\ last' = call
    /\ nsteps' = nsteps + 1
    /\ UNCHANGED <<micros, cells, held, heldCells, active_micros, micro_templates, files>>

\* engine.generate_global_placements()
GenerateGlobalPlacements ==
    /\ nsteps < MaxSteps
    /\ \E gp \in {generate_global_placements(Here, active_micros)} :
          CommitQuery(gp, CallReturned("generate_global_placements", 0, gp))

\* PlaceCellEngine.calculate_bounding_box: min/max of the placements' x and y
Engine_calculate_bounding_box(W, am) ==
    Then(generate_global_placements(W, am), LAMBDA placements :
        IF placements = <<>> THEN <<0, 0, 0, 0>>
        ELSE <<SeqMin([i \in 1..Len(placements) |-> placements[i].x]),
               SeqMin([i \in 1..Len(placements) |-> placements[i].y]),
               SeqMax([i \in 1..Len(placements) |-> placements[i].x]),
               SeqMax([i \in 1..Len(placements) |-> placements[i].y])>>)

\* sum(len(micro.get_all_sub_micros()) for micro in self.active_micros.values())
RECURSIVE TotalSubMicros(_, _, _)
TotalSubMicros(W, am, i) ==
    IF i > Len(am) THEN 0
    ELSE Len(get_all_sub_micros(W, am[i].micro)) + TotalSubMicros(W, am, i + 1)

\* PlaceCellEngine.get_placement_statistics
get_placement_statistics(W, am) ==
    Then(Engine_calculate_bounding_box(W, am), LAMBDA box :
        [total_cells |-> Len(generate_global_placements(W, am)),
         total_micros |-> Len(am),
         total_sub_micros |-> TotalSubMicros(W, am, 1),
         site_info |-> [width |-> Engine_site_info.width, height |-> Engine_site_info.height],
         bounding_box |-> [min_x |-> box[1], min_y |-> box[2],
                           max_x |-> box[3], max_y |-> box[4],
                           width |-> box[3] - box[1], height |-> box[4] - box[2]],
         micros_info |-> [i \in 1..Len(am) |->
             [name |-> am[i].name,
              cells_count |-> Len(get_all_cells(W, am[i].micro)),
              sub_micros_count |-> Len(get_all_sub_micros(W, am[i].micro)),
              origin |-> <<W.micros[am[i].micro].origin_x, W.micros[am[i].micro].origin_y>>,
              grid_origin |-> <<W.micros[am[i].micro].grid_x, W.micros[am[i].micro].grid_y>>]]])

\* engine.get_placement_statistics(); it refreshes the engine's placement list
GetPlacementStatistics ==
    /\ nsteps < MaxSteps
    /\ \E stats \in {get_placement_statistics(Here, active_micros)} :
          CommitQuery(generate_global_placements(Here, active_micros),
                      CallReturned("get_placement_statistics", 0, stats))

NextRegistry ==
    \/ NextEngine
    \/ GenerateGlobalPlacements
    \/ GetPlacementStatistics

SpecRegistry == InitEngine /\ [][NextRegistry]_vars

\* The cells under micro m, the micro's own first, then each sub-micro's in turn
RECURSIVE LeafOrder(_), LeafOrderOfSubs(_, _)
LeafOrder(m) == micros[m].cells \o LeafOrderOfSubs(micros[m].sub_micros, 1)

LeafOrderOfSubs(subs, i) ==
    IF i > Len(subs) THEN <<>> ELSE LeafOrder(subs[i]) \o LeafOrderOfSubs(subs, i + 1)

\* The placement record of cell c under the root registered as name
PlacementRecord(c, name) ==
    [cell |-> cells[c].hierarchical_path,
     x |-> cells[c].absolute_x
              + (IF cells[c].orientation \in {"S", "FN"} THEN cells[c].width ELSE 0),
     y |-> cells[c].absolute_y
              + (IF cells[c].orientation \in {"S", "FS"} THEN cells[c].height ELSE 0),
     orientation |-> cells[c].orientation,
     micro |-> name]

RECURSIVE FlattenFrom(_)
FlattenFrom(i) ==
    IF i > Len(active_micros) THEN <<>>
    ELSE [k \in 1..Len(LeafOrder(active_micros[i].micro)) |->
             PlacementRecord(LeafOrder(active_micros[i].micro)[k], active_micros[i].name)]
         \o FlattenFrom(i + 1)

(* C16.  generate_global_placements returns one record per leaf cell of      *)
(* every active root and nothing else: the roots in registration order, the  *)
(* records of a root together, within a root the root's own cells in         *)
(* insertion order and then each child's subtree depth-first; each record    *)
(* carries the cell's hierarchical path, placement anchor and orientation    *)
(* and the name its root is registered under.                                *)
C16_Flatten ==
    last.op = "generate_global_placements"
    => /\ last.result = FlattenFrom(1)
       /\ global_placements = last.result

\* The list has just been made for two roots, one of them with a sub-micro
\* that has cells
C16_Witness ==
    /\ last.op = "generate_global_placements"
    /\ Len(active_micros) = 2
    /\ \A i \in 1..2 : micros[active_micros[i].micro].cells # <<>>
    /\ \E s \in Children(Here, active_micros[1].micro) : micros[s].cells # <<>>

\* The cells of all the registered trees
ActiveCells ==
    UNION {TreeCells(Here, active_micros[i].micro) : i \in 1..Len(active_micros)}

\* The registered roots that have a cell somewhere in their tree
PopulatedRoots ==
    {active_micros[i].micro : i \in 1..Len(active_micros)} \ {m \in MicroIds : TreeCells(Here, m) = {}}

(* C17.  The bounding box reported by get_placement_statistics is the box of *)
(* the union of the active roots: it encloses [absolute position, absolute   *)
(* position + size] of every cell of every registered tree, its edges are    *)
(* the min/max of the roots' own bounding boxes, and it is the all-zero box  *)
(* when no registered tree has a cell.                                       *)
C17_GlobalBoundingBox ==
    last.op = "get_placement_statistics"
    => LET box == last.result.bounding_box
       IN  /\ \A c \in ActiveCells :
                /\ box.min_x <= cells[c].absolute_x
                /\ box.min_y <= cells[c].absolute_y
                /\ box.max_x >= cells[c].absolute_x + cells[c].width
                /\ box.max_y >= cells[c].absolute_y + cells[c].height
           /\ PopulatedRoots # {} =>
                /\ \A m \in PopulatedRoots :
                      /\ box.min_x <= calculate_bounding_box(Here, m)[1]
                      /\ box.min_y <= calculate_bounding_box(Here, m)[2]
                      /\ box.max_x >= calculate_bounding_box(Here, m)[3]
                      /\ box.max_y >= calculate_bounding_box(Here, m)[4]
                /\ \E m \in PopulatedRoots : box.min_x = calculate_bounding_box(Here, m)[1]
                /\ \E m \in PopulatedRoots : box.min_y = calculate_bounding_box(Here, m)[2]
                /\ \E m \in PopulatedRoots : box.max_x = calculate_bounding_box(Here, m)[3]
                /\ \E m \in PopulatedRoots : box.max_y = calculate_bounding_box(Here, m)[4]
           /\ ActiveCells = {} =>
                /\ box.min_x = 0 /\ box.min_y = 0
                /\ box.max_x = 0 /\ box.max_y = 0

\* The registry: the registered names in order, each with its tree
RegistryView(W, am) ==
    [i \in 1..Len(am) |-> [name |-> am[i].name, tree |-> FullView(W, am[i].micro)]]

(* C18.  create_micro on a name that is already registered registers         *)
(* nothing: the registry is as it was, the tree registered under the name    *)
(* before the call, with its cells and sub-micros, is still the one          *)
(* registered under it.                                                      *)
C18_CreateDuplicate ==
    [][ (last'.op = "create_micro" /\ last'.name \in Registered)
        => RegistryView(World(micros', cells'), active_micros')
              = RegistryView(Here, active_micros) ]_vars

\* The engine calls that place, move or flip a registered micro by name
EngineMoves ==
    {"place_micro", "place_micro_by_grid", "move_micro", "move_micro_by_grid",
     "flip_micro_horizontal"}

(* C19.  place_micro, place_micro_by_grid, move_micro, move_micro_by_grid    *)
(* and flip_micro_horizontal on a name that is not registered raise          *)
(* ValueError and leave the registry and every registered tree as they were; *)
(* on a registered name they raise nothing, keep the registered names, and   *)
(* change no tree registered under another name.                             *)
C19_MovesByName ==
    [][ last'.op \in EngineMoves
        => IF last'.name \notin Registered
           THEN /\ last'.raised = "ValueError"
                /\ RegistryView(World(micros', cells'), active_micros')
                      = RegistryView(Here, active_micros)
           ELSE /\ last'.raised = "none"
                /\ Len(active_micros') = Len(active_micros)
                /\ \A i \in 1..Len(active_micros) :
                      /\ active_micros'[i].name = active_micros[i].name
                      /\ active_micros[i].name # last'.name
                         => FullView(World(micros', cells'), active_micros'[i].micro)
                               = FullView(Here, active_micros[i].micro) ]_vars

\* A call on a name that is not registered has just raised, with a tree that
\* has cells registered under another name
C19_Witness ==
    /\ last.op \in EngineMoves
    /\ last.raised = "ValueError"
    /\ last.name \notin Registered
    /\ \E i \in 1..Len(active_micros) : TreeCells(Here, active_micros[i].micro) # {}

\* A call on a registered name has just moved its tree, with a tree that has
\* cells registered under another name
C19_WitnessRegistered ==
    /\ last.op \in EngineMoves
    /\ last.raised = "none"
    /\ micros[last.self].origin_x # 0
    /\ \E i \in 1..Len(active_micros) :
          /\ active_micros[i].name # last.name
          /\ TreeCells(Here, active_micros[i].micro) # {}

\* The template store: the cached trees by name, and the files
TemplateView(W, mt, fl) ==
    [cache |-> [i \in 1..Len(mt) |-> [name |-> mt[i].name, tree |-> FullView(W, mt[i].micro)]],
     files |-> fl]

(* C20.  create_micro_from_template with a template name that is neither in  *)
(* the library's cache nor saved as a file returns None and registers        *)
(* nothing: the registered names, every registered tree, the cache and the   *)
(* files are as they were.                                                   *)
C20_UnknownTemplate ==
    [][ ( /\ last'.op = "create_micro_from_template"
          /\ ~DictHas(micro_templates, last'.name)
          /\ ~DictHas(files, last'.name) )
        => /\ last'.other = 0
           /\ RegistryView(World(micros', cells'), active_micros')
                 = RegistryView(Here, active_micros)
           /\ TemplateView(World(micros', cells'), micro_templates', files')
                 = TemplateView(Here, micro_templates, files) ]_vars

\* An instantiation of a name the library does not know has just returned
\* None, with a tree registered and another template in the library
C20_Witness ==
    /\ last.op = "create_micro_from_template"
    /\ last.other = 0
    /\ ~DictHas(micro_templates, last.name)
    /\ ~DictHas(files, last.name)
    /\ active_micros # <<>>
    /\ files # <<>>

(* C21.  remove_micro(name) deletes exactly the entry registered under name: *)
(* the other entries of the registry, in their order and with their trees,   *)
(* and the library's cache and files are as they were; for a name that is    *)
(* not registered nothing changes and the call returns False, for a          *)
(* registered one it returns True.                                           *)
C21_RemoveExactly ==
    [][ last'.op = "remove_micro"
        => /\ RegistryView(World(micros', cells'), active_micros')
                 = SelectSeq(RegistryView(Here, active_micros),
                             LAMBDA e : e.name # last'.name)
           /\ TemplateView(World(micros', cells'), micro_templates', files')
                 = TemplateView(Here, micro_templates, files)
           /\ last'.result = (last'.name \in Registered) ]_vars

\* A registered name has just been removed, another name is still registered
\* and the library holds a template
C21_Witness ==
    /\ last.op = "remove_micro"
    /\ last.result = TRUE
    /\ active_micros # <<>>
    /\ micro_templates # <<>>
    /\ files # <<>>

\* A remove of a name that is not registered has just returned False, with a
\* tree registered under another name
C21_WitnessNotFound ==
    /\ last.op = "remove_micro"
    /\ last.result = FALSE
    /\ active_micros # <<>>

-----------------------------------------------------------------------------
(* SiteInfo.snap_to_grid as a function: every site with positive pitches up  *)
(* to MaxPitch, every coordinate pair within MaxCoord of the origin.         *)

MaxPitch == 3
MaxCoord == 7

InitSnap ==
    /\ micros = <<>>
    /\ cells = <<>>
    /\ held = <<>>
    /\ heldCells = <<>>
    /\ active_micros = <<>>
    /\ micro_templates = <<>>
    /\ files = <<>>
    /\ global_placements = <<>>
    /\ nsteps = 0
    /\ \E width \in 1..MaxPitch, height \in 1..MaxPitch,
          x \in (0 - MaxCoord)..MaxCoord, y \in (0 - MaxCoord)..MaxCoord :
          last = [op |-> "SiteInfo", site |-> SiteInfo(width, height), x |-> x, y |-> y]

\* site.snap_to_grid(x, y)
SnapToGrid ==
    /\ nsteps < MaxSteps
    /\ last.op = "SiteInfo"
    /\ last' = [op |-> "snap_to_grid", site |-> last.site, x |-> last.x, y |-> last.y,
                result |-> snap_to_grid(last.site, last.x, last.y)]
    /\ nsteps' = nsteps + 1
    /\ UNCHANGED <<micros, cells, held, heldCells, active_micros, micro_templates, files,
                   global_placements>>

\* site.snap_to_grid(*r) for the pair r the call before returned
SnapToGridAgain ==
    /\ nsteps < MaxSteps
    /\ last.op = "snap_to_grid"
    /\ last' = [op |-> "snap_to_grid", site |-> last.site,
                x |-> last.result[1], y |-> last.result[2],
                result |-> snap_to_grid(last.site, last.result[1], last.result[2])]
    /\ nsteps' = nsteps + 1
    /\ UNCHANGED <<micros, cells, held, heldCells, active_micros, micro_templates, files,
                   global_placements>>

NextSnap ==
    \/ SnapToGrid
    \/ SnapToGridAgain

SpecSnap == InitSnap /\ [][NextSnap]_vars

(* C22.  Grid snap idempotence: for every coordinate pair and every positive *)
(* pitch, what snap_to_grid returns is a multiple of the pitch on each axis, *)
(* and snapping it again returns it unchanged.                               *)
C22_SnapIdempotent ==
    [][ last'.op = "snap_to_grid"
        => /\ last'.result[1] % last'.site.width = 0
           /\ last'.result[2] % last'.site.height = 0
           /\ last.op = "snap_to_grid" => last'.result = last.result ]_vars

\* A result of snap_to_grid has been snapped again, on a site whose pitches
\* are more than one unit, left of and above the origin
C22_Witness ==
    /\ last.op = "snap_to_grid"
    /\ nsteps = 2
    /\ last.site.width > 1
    /\ last.site.height > 1
    /\ last.x < 0
    /\ last.y > 0

-----------------------------------------------------------------------------
(* SiteInfo as the dataclass constructs it: any two numbers are accepted.    *)

\* SiteInfo(width, height): the generated __init__ stores what it is given
SiteInfo_init(width, height) == [site |-> SiteInfo(width, height), raised |-> "none"]

\* Python round(n / d) for any d # 0
PyRoundSigned(n, d) == IF d > 0 THEN PyRound(n, d) ELSE PyRound(0 - n, 0 - d)

\* site.snap_to_grid(x, y) on any SiteInfo: x / 0 raises ZeroDivisionError
SiteInfo_snap_to_grid(site, x, y) ==
    IF site.width = 0 \/ site.height = 0
    THEN [result |-> <<>>, raised |-> "ZeroDivisionError"]
    ELSE [result |-> <<PyRoundSigned(x, site.width) * site.width,
                       PyRoundSigned(y, site.height) * site.height>>,
          raised |-> "none"]

InitSite ==
    /\ micros = <<>>
    /\ cells = <<>>
    /\ held = <<>>
    /\ heldCells = <<>>
    /\ active_micros = <<>>
    /\ micro_templates = <<>>
    /\ files = <<>>
    /\ global_placements = <<>>
    /\ nsteps = 0
    /\ last = [op |-> "init"]

\* site = SiteInfo(width, height)
NewSiteInfo ==
    \E width \in (0 - 1)..MaxPitch, height \in (0 - 1)..MaxPitch :
        /\ nsteps < MaxSteps
        /\ last.op = "init"
        /\ \E r \in {SiteInfo_init(width, height)} :
              last' = [op |-> "SiteInfo", width |-> width, height |-> height,
                       site |-> r.site, raised |-> r.raised]
        /\ nsteps' = nsteps + 1
        /\ UNCHANGED <<micros, cells, held, heldCells, active_micros, micro_templates,
                       files, global_placements>>

\* site.snap_to_grid(x, y) on the site just constructed
SiteSnapToGrid ==
    \E x \in (0 - 1)..MaxPitch, y \in (0 - 1)..MaxPitch :
        /\ nsteps < MaxSteps
        /\ last.op = "SiteInfo"
        /\ last.raised = "none"
        /\ \E r \in {SiteInfo_snap_to_grid(last.site, x, y)} :
              last' = [op |-> "snap_to_grid", site |-> last.site, x |-> x, y |-> y,
                       result |-> r.result, raised |-> r.raised]
        /\ nsteps' = nsteps + 1
        /\ UNCHANGED <<micros, cells, held, heldCells, active_micros, micro_templates,
                       files, global_placements>>

NextSite ==
    \/ NewSiteInfo
    \/ SiteSnapToGrid

SpecSite == InitSite /\ [][NextSite]_vars

(* C23.  Constructing a SiteInfo whose width or height is zero or negative   *)
(* fails: the constructor raises, no SiteInfo with a non-positive pitch      *)
(* exists, and snap_to_grid never divides by a zero pitch.                   *)
C23_PositivePitch ==
    /\ last.op = "SiteInfo"
       => IF last.width <= 0 \/ last.height <= 0
          THEN last.raised # "none"
          ELSE last.raised = "none"
    /\ last.op = "snap_to_grid"
       => /\ last.site.width > 0
          /\ last.site.height > 0
          /\ last.raised # "ZeroDivisionError"

\* The names from the root down to micro m, by its parent links
RECURSIVE AncestorNames(_)
AncestorNames(m) ==
    IF micros[m].parent = <<>> THEN <<micros[m].name>>
    ELSE Append(AncestorNames(micros[m].parent[1]), micros[m].name)

\* Every micro under (and including) root, and every cell they own, has the
\* names from the root down to itself as its path
PathsOfTree(root) ==
    \A m \in {root} \cup Descendants(Here, root) :
        /\ micros[m].hierarchical_path = AncestorNames(m)
        /\ \A i \in 1..Len(micros[m].cells) :
              cells[micros[m].cells[i]].hierarchical_path
                 = Append(AncestorNames(m), cells[micros[m].cells[i]].name)

\* engine.get_micro(name).add_sub_micro(engine.get_micro(src).clone(new_name)),
\* or the same on a sub-micro already attached under the registered root
GetMicroAddSubMicro ==
    \E name \in Registered, src \in Registered, new_name \in {NoName, "C"} :
        \E target \in {DictGet(active_micros, name)}
                         \cup Children(Here, DictGet(active_micros, name)) :
            /\ nsteps < MaxSteps
            /\ \E W1 \in {Micro_clone(Here, DictGet(active_micros, src), new_name)} :
                  Commit(add_sub_micro(W1, target, Len(micros) + 1),
                         held, heldCells, active_micros, micro_templates, files,
                         CallNamed("get_micro.add_sub_micro", target, 0, name))

NextPath ==
    \/ NextEngine
    \/ GetMicroAddSubMicro

SpecPath == InitEngine /\ [][NextPath]_vars

(* C24.  In every registered tree, whatever add_cell, add_sub_micro (also    *)
(* on a sub-micro that is already attached), clone(new_name), instantiation  *)
(* from a template and loading from the library under an instance name have  *)
(* been made, the hierarchical path of every micro and of every cell is the  *)
(* names of its ancestors from the root down to itself; the root's path is   *)
(* its own name.                                                             *)
C24_Paths ==
    \A i \in 1..Len(active_micros) : PathsOfTree(active_micros[i].micro)

\* A renamed clone of a registered tree that has a sub-micro with cells has
\* just been attached under a sub-micro of a registered root
C24_Witness ==
    /\ last.op = "get_micro.add_sub_micro"
    /\ micros[last.self].parent # <<>>
    /\ \E m \in Descendants(Here, last.self) :
          /\ Len(micros[m].hierarchical_path) = 4
          /\ micros[m].hierarchical_path[3] = "C"
          /\ micros[m].cells # <<>>

-----------------------------------------------------------------------------
(* The cached fields of a Cell under the Cell's own operations. *)

\* c2 = c.clone() on any Cell object; the record keeps the source as it was
CellClone ==
    \E c \in 1..Len(cells) :
        /\ nsteps < MaxSteps
        /\ CommitCaller(AllocCell(Here, Cell_clone(cells[c])),
                        held, Append(heldCells, Len(cells) + 1),
                        CallReturned("Cell.clone", Len(cells) + 1, cells[c]))

\* c.set_absolute_position(origin_x, origin_y) on any Cell object
CellSetAbsolutePosition ==
    \E c \in 1..Len(cells), p \in EngineOrigins :
        /\ nsteps < MaxSteps
        /\ CommitCaller([Here EXCEPT !.cells[c] =
                            Cell_set_absolute_position(@, p[1], p[2], @.site_info)],
                        held, heldCells, CallReturned("set_absolute_position", c, p))

NextCache ==
    \/ NextCell
    \/ CellClone
    \/ CellSetAbsolutePosition

SpecCache == InitClone /\ [][NextCache]_vars

\* The cached bounding box of a cell is [absolute position, that plus size]
BoxConsistent(c) ==
    /\ c.bbox_min_x = c.absolute_x
    /\ c.bbox_min_y = c.absolute_y
    /\ c.bbox_max_x = c.absolute_x + c.width
    /\ c.bbox_max_y = c.absolute_y + c.height

\* The micros that own cell c
OwnersOf(c) == {m \in MicroIds : \E i \in 1..Len(micros[m].cells) : micros[m].cells[i] = c}

(* C25.  After a Cell operation the cell's cached fields are consistent:     *)
(* after construction, set_rel_position, set_absolute_position, set_size and *)
(* clone the bounding box is [absolute position, absolute position + size];  *)
(* after set_absolute_position the absolute position is the origin given     *)
(* plus the stored position; after set_rel_position on a cell of a micro it  *)
(* is the micro's origin plus the new stored position; a clone has the       *)
(* absolute position and the bounding box of its source.                     *)
C25_CellCaches ==
    /\ last.op \in {"Cell", "set_rel_position", "set_absolute_position", "set_size",
                    "Cell.clone"}
       => BoxConsistent(cells[last.cell])
    /\ last.op = "set_absolute_position"
       => /\ cells[last.cell].absolute_x = last.result[1] + cells[last.cell].x
          /\ cells[last.cell].absolute_y = last.result[2] + cells[last.cell].y
    /\ last.op = "set_rel_position"
       => \A m \in OwnersOf(last.cell) :
             /\ cells[last.cell].absolute_x = micros[m].origin_x + cells[last.cell].x
             /\ cells[last.cell].absolute_y = micros[m].origin_y + cells[last.cell].y
    /\ last.op = "Cell.clone"
       => /\ cells[last.cell].absolute_x = last.result.absolute_x
          /\ cells[last.cell].absolute_y = last.result.absolute_y
          /\ cells[last.cell].bbox_min_x = last.result.bbox_min_x
          /\ cells[last.cell].bbox_min_y = last.result.bbox_min_y
          /\ cells[last.cell].bbox_max_x = last.result.bbox_max_x
          /\ cells[last.cell].bbox_max_y = last.result.bbox_max_y

\* A shape as offsets from the point o: where every sub-micro and every cell
\* sits relative to o
RECURSIVE Offsets(_, _)
Offsets(shape, o) ==
    [origin |-> <<shape.origin[1] - o[1], shape.origin[2] - o[2]>>,
     cells |-> [i \in 1..Len(shape.cells) |->
                  <<shape.cells[i].absolute[1] - o[1], shape.cells[i].absolute[2] - o[2]>>],
     sub_micros |-> [i \in 1..Len(shape.sub_micros) |-> Offsets(shape.sub_micros[i], o)]]

(* C26.  create_micro_from_template at (x, y) registers a tree whose root is *)
(* at snap_to_grid(x, y), in which every sub-micro at every depth sits at    *)
(* the offset from the root it has in the saved template, and every cell's   *)
(* absolute position is the root's origin plus its position relative to the  *)
(* template's root.                                                          *)
C26_InstantiateKeepsOffsets ==
    ( /\ last.op = "create_micro_from_template"
      /\ last.other # 0
      /\ DictHas(files, last.name) )
    => /\ DictHas(active_micros, "B")
       /\ DictGet(active_micros, "B") = last.other
       /\ <<micros[last.other].origin_x, micros[last.other].origin_y>>
             = snap_to_grid(Engine_site_info, last.origin[1], last.origin[2])
       /\ Offsets(Shape(Here, last.other),
                  <<micros[last.other].origin_x, micros[last.other].origin_y>>)
             = Offsets(Snapshot(last.name), Snapshot(last.name).origin)

(* C27.  clone(), with or without a new name, preserves geometry: whatever   *)
(* the root's origin and the depth of the tree, the clone's root and every   *)
(* sub-micro of the clone have the origin of the corresponding micro of the  *)
(* source, and every cell of the clone has the stored position, absolute     *)
(* position and orientation of the corresponding cell of the source.         *)
C27_ClonePreservesGeometry ==
    last.op = "clone" => Shape(Here, last.other) = Shape(Here, last.self)

(* C28.  set_origin is idempotent on the whole subtree: a second             *)
(* set_origin(x, y) on the same micro with the same arguments, straight      *)
(* after the first, leaves the origin of every descendant and the absolute   *)
(* position and orientation of every cell as they were after the first.      *)
C28_SetOriginIdempotent ==
    [][ ( /\ last.op = "set_origin"
          /\ last'.op = "set_origin"
          /\ last'.self = last.self
          /\ last'.origin = last.origin )
        => Shape(World(micros', cells'), last'.self) = Shape(Here, last.self) ]_vars

\* The origins in a layout: of the micro and of every sub-micro at every depth
RECURSIVE OriginsOf(_)
OriginsOf(layout) ==
    [origin |-> layout.origin,
     sub_micros |-> [i \in 1..Len(layout.sub_micros) |-> OriginsOf(layout.sub_micros[i])]]

(* C29.  flip_horizontal is an involution on geometry: a second flip of the  *)
(* same micro straight after the first gives every cell the micro owns the   *)
(* stored position, and every descendant sub-micro the origin, it had before *)
(* the first flip, and the micro's own origin is what it was.                *)
C29_FlipInvolution ==
    [][ ( /\ last.op = "flip_horizontal"
          /\ last'.op = "flip_horizontal"
          /\ last'.self = last.self )
        => /\ Layout(World(micros', cells'), last'.self).cells = last.before.cells
           /\ OriginsOf(Layout(World(micros', cells'), last'.self)) = OriginsOf(last.before) ]_vars

\* The abutment group of every cell of the tree under m
RECURSIVE GroupView(_, _)
GroupView(W, m) ==
    [cells |-> [i \in 1..Len(W.micros[m].cells) |->
                  AbutmentGroup(W.cells[W.micros[m].cells[i]].orientation)],
     sub_micros |-> [i \in 1..Len(W.micros[m].sub_micros) |->
                       GroupView(W, W.micros[m].sub_micros[i])]]

\* The orientation a group has on row j
RowOrientation(group, j) ==
    IF group
    THEN IF j % 2 = 0 THEN "FS" ELSE "N"
    ELSE IF j % 2 = 0 THEN "S" ELSE "FN"

\* The caller's variable that holds micro m after the call
HeldAs(m) == CHOOSE k \in 1..Len(held') : held'[k].micro = m

(* C30.  Row re-derivation never changes a cell's mirror state.  Across      *)
(* set_origin, move_by (and their grid variants) and add_sub_micro every     *)
(* cell of every tree stays in its group, {N, FS} or {S, FN}, and the copy   *)
(* that add_sub_micro attaches has the groups of the tree it was made from;  *)
(* after a set_origin or move_by every cell under the moved micro has        *)
(* exactly the orientation of its group on the row it now is on.             *)
C30_MirrorStateKept ==
    [][ /\ last'.op \in OriginCalls
           => /\ \A j \in 1..Len(held) :
                    GroupView(World(micros', cells'), held'[j].micro)
                       = GroupView(Here, held[j].micro)
              /\ \A m \in Refreshed(last'.self) :
                    \A i \in 1..Len(micros[m].cells) :
                       cells'[micros'[m].cells[i]].orientation
                          = RowOrientation(AbutmentGroup(cells[micros[m].cells[i]].orientation),
                                           RowOf(cells'[micros'[m].cells[i]]))
        /\ last'.op = "add_sub_micro"
           => \A j \in 1..Len(held) :
                 IF held'[j].micro = last'.self
                 THEN /\ GroupView(World(micros', cells'), held'[j].micro).cells
                            = GroupView(Here, held[j].micro).cells
                      /\ GroupView(World(micros', cells'), held'[j].micro).sub_micros
                            = Append(GroupView(Here, held[j].micro).sub_micros,
                                     GroupView(Here, held[HeldAs(last'.other)].micro))
                 ELSE GroupView(World(micros', cells'), held'[j].micro)
                         = GroupView(Here, held[j].micro) ]_vars

\* add_sub_micro has just attached a copy in which a cell has another
\* orientation than in the tree it was copied from
C30_Witness ==
    /\ last.op = "add_sub_micro"
    /\ last.other # last.self
    /\ LET subs == micros[last.self].sub_micros
           copy == subs[Len(subs)]
       IN  \E i \in 1..Len(micros[copy].cells) :
              cells[micros[copy].cells[i]].orientation
                 # cells[micros[last.other].cells[i]].orientation

====
